---------------------------- MODULE Spec2Model ----------------------------
(***************************************************************************)
(* A model of purua: a tree-walking interpreter for a Lua subset.          *)
(*   src/src/parser.rs  combinator parser, source text -> Rule (AST)       *)
(*   src/src/eval.rs    evaluator, walks the Rule tree                     *)
(*   src/src/state.rs   LuaState: global table, registry, call frames      *)
(* The evaluator is modelled as recursive operators over an interpreter    *)
(* state record l; the actions are the entry points a host drives.         *)
(***************************************************************************)
EXTENDS Integers, Sequences, FiniteSets, TLC

VARIABLES g, reg, frame_stack, overflow_checks, last

vars == <<g, reg, frame_stack, overflow_checks, last>>

---------------------------------------------------------------------------
(* Bounds of the model *)

\* number of interpreted calls that may be active at once (host recursion)
MaxFrames == 3
\* iterations after which a for-in loop is cut off
MaxLoop == 4
\* largest count a generic native pushes or reports
MaxRet == 2
\* largest limit handed to the range iterator
MaxRange == 2

\* reg_size the host hands to LuaState::new
RegSize == 8
\* pops of an empty registry the host tries in one run
MaxUnderflow == 2
\* usize is modelled UsizeMod values wide (TLC's integers are 32-bit)
UsizeMod == 65536
\* i64 is modelled as -NumMax-1 .. NumMax
NumMax == 30000

(* Program constants *)
\* Rule::Numeral holds an i32
I32Max == 2147483647

---------------------------------------------------------------------------
(* Value (the variants the sources match on) *)

Nil == <<"Nil">>
Bool(b) == <<"Bool", b>>
Number(n) == <<"Number", n>>
LuaString(s) == <<"LuaString", s>>
Function(f) == <<"Function", f>>
Table(vec) == <<"Table", vec>>

IsNumber(v) == v[1] = "Number"
IsBool(v) == v[1] = "Bool"
IsLuaString(v) == v[1] = "LuaString"
IsFunction(v) == v[1] = "Function"

\* LuaFunction::from_fn / LuaFunction::from_code
NativeFn(desc) == <<"native", desc>>
CodeFn(params, block) == <<"code", params, block>>

\* Option<T>
None == <<>>
Some(x) == <<x>>
IsSome(o) == Len(o) = 1
Unwrap(o) == o[1]

---------------------------------------------------------------------------
(* Results: Ok(value) | Err(LuaError) | a panic that aborts the process.   *)
(* Every result carries the interpreter state it leaves behind.            *)

Ok(l, v) == [l |-> l, res |-> "ok", v |-> v, msg |-> ""]
Err(l, m) == [l |-> l, res |-> "err", v |-> Nil, msg |-> m]
Panic(l, m) == [l |-> l, res |-> "panic", v |-> Nil, msg |-> m]
IsOk(r) == r.res = "ok"

\* `let x = e; k`: e is evaluated once and named x in k
With(x, K(_)) == K(x)
\* `let x = e?; k`: an error or a panic of e is the result, else k goes on
\* with the result of e
Try(r, K(_)) == IF IsOk(r) THEN K(r) ELSE r

\* history of one evaluation: the events the properties observe
Log(l, ev) == [l EXCEPT !.log = Append(@, ev)]

---------------------------------------------------------------------------
(* Registry *)

\* array.push(value); top += 1 (top is below usize::MAX unless an earlier
\* pop has wrapped it)
push(l, value) ==
  [l EXCEPT !.reg.array = Append(@, value), !.reg.top = (@ + 1) % UsizeMod]

\* top -= 1 on a usize: panics with overflow checks, wraps without
pop(l) ==
  IF l.reg.top = 0 /\ l.overflow_checks
  THEN [l |-> l, panic |-> TRUE, opt |-> None]
  ELSE IF Len(l.reg.array) = 0
  THEN [l |-> [l EXCEPT !.reg.top = (@ - 1) % UsizeMod],
        panic |-> FALSE, opt |-> None]
  ELSE [l |-> [l EXCEPT !.reg.top = (@ - 1) % UsizeMod,
                        !.reg.array = SubSeq(@, 1, Len(@) - 1)],
        panic |-> FALSE, opt |-> Some(l.reg.array[Len(l.reg.array)])]

ensure_pop(l) ==
  With(pop(l), LAMBDA p :
    IF p.panic THEN Panic(p.l, "attempt to subtract with overflow")
    ELSE IF IsSome(p.opt) THEN Ok(p.l, Unwrap(p.opt))
    ELSE Err(p.l, "Cannot find value from regisrty, maybe empty"))

to_int(v) == IF IsNumber(v) THEN Some(v[2]) ELSE None

\* Registry::to_int: the value pos slots below top
reg_to_int(l, pos) ==
  With(l.reg.top - pos, LAMBDA idx :
    IF idx < 0 \/ idx >= Len(l.reg.array)
    THEN Panic(l, "index out of bounds")
    ELSE IF IsSome(to_int(l.reg.array[idx + 1]))
    THEN Ok(l, Unwrap(to_int(l.reg.array[idx + 1])))
    ELSE Err(l, "TypeError: cannot cast into int"))

arg_int(l, pos) == reg_to_int(l, pos)

---------------------------------------------------------------------------
(* LuaState *)

EmptyMap == [n \in {} |-> Nil]

MapPut(m, k, v) == [n \in DOMAIN m \cup {k} |-> IF n = k THEN v ELSE m[n]]

LuaState_new(reg_size) ==
  [g |-> EmptyMap,
   reg |-> [array |-> <<>>, top |-> 0, max_size |-> reg_size],
   frame_stack |-> <<>>]

CallFrame_new(env) == [env |-> env, to_return |-> FALSE]

assign_global_KeepOld(l, name, value) ==
  IF name \in DOMAIN l.g THEN l ELSE [l EXCEPT !.g = MapPut(@, name, value)]

assign_global(l, name, value) ==
  [l EXCEPT !.g = MapPut(@, name, value)]

get_global(l, name) ==
  IF name \in DOMAIN l.g THEN Some(l.g[name]) ELSE None

register_global_fn(l, name, func) ==
  [l EXCEPT !.g = MapPut(@, name, Function(NativeFn(func)))]

register_global_code(l, name, params, block) ==
  [l EXCEPT !.g = MapPut(@, name, Function(CodeFn(params, block)))]

current_frame(l) ==
  IF Len(l.frame_stack) = 0 THEN None
  ELSE Some(l.frame_stack[Len(l.frame_stack)])

\* the registry index bound to name in the current frame, if any
local_index(l, name) ==
  IF ~IsSome(current_frame(l)) THEN None
  ELSE IF name \notin DOMAIN Unwrap(current_frame(l)).env THEN None
  ELSE Some(Unwrap(current_frame(l)).env[name])

get_local(l, name) ==
  With(local_index(l, name), LAMBDA i :
    IF IsSome(i) THEN Some(l.reg.array[Unwrap(i) + 1]) ELSE None)

\* reg.array[idx] with idx past the end of the vector
get_local_panics(l, name) ==
  With(local_index(l, name), LAMBDA i :
    IsSome(i) /\ Unwrap(i) >= Len(l.reg.array))

\* the caller makes sure a frame exists (last_mut().unwrap())
set_to_return(l, flag) ==
  [l EXCEPT !.frame_stack[Len(l.frame_stack)].to_return = flag]

to_return_Never(l) == FALSE

to_return(l) ==
  IF IsSome(current_frame(l)) THEN Unwrap(current_frame(l)).to_return
  ELSE FALSE

returns(l, retval) == push(l, retval)

---------------------------------------------------------------------------
(* parser.rs: Rule, the AST *)

RNil == <<"Nil">>
RBool(b) == <<"Bool", b>>
RNumeral(n) == <<"Numeral", n>>
RLiteralString(s) == <<"LiteralString", s>>
RSymbol(s) == <<"Symbol", s>>
RSymbolList(v) == <<"SymbolList", v>>
RChunk(stats, lst) == <<"Chunk", stats, lst>>
RBlock(chunk) == <<"Block", chunk>>
RStat(kind, a, b, c, d, e) == <<"Stat", kind, a, b, c, d, e>>
RLastStat(e) == <<"LastStat", e>>
RIfStat(exps, blocks) == <<"IfStat", exps, blocks>>
RFuncName(s) == <<"FuncName", s>>
RVar(s) == <<"Var", s>>
RExp(e) == <<"Exp", e>>
RPrefixexp(e) == <<"Prefixexp", e>>
RFunctionCall(name, args) == <<"FunctionCall", name, args>>
RArgs(e) == <<"Args", e>>
RFuncBody(params, block) == <<"FuncBody", params, block>>
RParList1(s) == <<"ParList1", s>>
RTableConst(l) == <<"TableConst", l>>
RFieldList(v) == <<"FieldList", v>>
RField(k, v) == <<"Field", k, v>>
RBinOp(c, lhs, rhs) == <<"BinOp", c, lhs, rhs>>
RUnOp(c, e) == <<"UnOp", c, e>>
RNop == <<"Nop">>

Tag(rule) == rule[1]

---------------------------------------------------------------------------
(* parser.rs: expressions.  The input is the text cut into lexemes (each   *)
(* parser skips the blanks after its lexeme): <<"num", digits>>,           *)
(* <<"str", s>>, <<"sym", name>>, <<"kw", word>>, <<"op", chars>>.         *)
(* A parser ends ok, fail (pos tells how far it consumed) or panic.        *)

TNum(digits) == <<"num", digits>>
TStr(str) == <<"str", str>>
TSym(name) == <<"sym", name>>
TKw(word) == <<"kw", word>>
TOp(chars) == <<"op", chars>>

POk(ast, pos) == [res |-> "ok", ast |-> ast, pos |-> pos]
PFail(pos) == [res |-> "fail", ast |-> RNop, pos |-> pos]
PPanic(pos) == [res |-> "panic", ast |-> RNop, pos |-> pos]

Tok(ts, pos) == IF pos <= Len(ts) THEN ts[pos] ELSE <<"eof", "">>
IsTok(ts, pos, kind, text) == Tok(ts, pos) = <<kind, text>>

\* attempt(p): a failure consumes nothing
attempt(r, start) == IF r.res = "fail" THEN PFail(start) ELSE r

\* a.or(b) goes on to b only when a failed without consuming
Committed(r, start) == r.res # "fail" \/ r.pos > start
Or(a, start, b) == IF Committed(a, start) THEN a ELSE b

\* (p, q): q goes on from where p stopped; a failure of p is the result
Then(r, K(_)) == IF r.res = "ok" THEN K(r) ELSE r

RECURSIVE StripZeros(_)
StripZeros(ds) ==
  IF Len(ds) > 1 /\ ds[1] = 0 THEN StripZeros(Tail(ds)) ELSE ds

RECURSIVE DigitsOf(_)
DigitsOf(n) == IF n < 10 THEN <<n>> ELSE Append(DigitsOf(n \div 10), n % 10)

I32MaxDigits == DigitsOf(I32Max)

RECURSIVE LexLeq(_, _)
LexLeq(a, b) ==
  IF Len(a) = 0 THEN TRUE
  ELSE IF a[1] # b[1] THEN a[1] < b[1]
  ELSE LexLeq(Tail(a), Tail(b))

\* whether str::parse::<i32> accepts the digits
FitsI32(ds) ==
  With(StripZeros(ds), LAMBDA d :
    Len(d) < Len(I32MaxDigits)
    \/ (Len(d) = Len(I32MaxDigits) /\ LexLeq(d, I32MaxDigits)))

RECURSIVE DigitsValue(_, _)
DigitsValue(ds, acc) ==
  IF Len(ds) = 0 THEN acc ELSE DigitsValue(Tail(ds), acc * 10 + ds[1])

\* the parsers refer to one another by name: parser("exp", ts, pos) is
\* exp() applied to the lexemes ts from position pos
RECURSIVE parser(_, _, _)
RECURSIVE chainl1_rest(_, _, _, _)

p_nil(ts, pos) ==
  IF IsTok(ts, pos, "kw", "nil") THEN POk(RNil, pos + 1) ELSE PFail(pos)

p_boolean(ts, pos) ==
  IF IsTok(ts, pos, "kw", "true") THEN POk(RBool(TRUE), pos + 1)
  ELSE IF IsTok(ts, pos, "kw", "false") THEN POk(RBool(FALSE), pos + 1)
  ELSE PFail(pos)

\* d.parse().unwrap()
p_numeral(ts, pos) ==
  IF Tok(ts, pos)[1] # "num" THEN PFail(pos)
  ELSE IF FitsI32(Tok(ts, pos)[2])
  THEN POk(RNumeral(DigitsValue(Tok(ts, pos)[2], 0)), pos + 1)
  ELSE PPanic(pos)

p_literal_string(ts, pos) ==
  IF Tok(ts, pos)[1] = "str" THEN POk(RLiteralString(Tok(ts, pos)[2]), pos + 1)
  ELSE PFail(pos)

\* (letter(), many(alpha_num())): any word, a reserved one too
p_symbol(ts, pos) ==
  IF Tok(ts, pos)[1] \in {"sym", "kw"} THEN POk(RSymbol(Tok(ts, pos)[2]), pos + 1)
  ELSE PFail(pos)

p_var(ts, pos) ==
  Then(p_symbol(ts, pos), LAMBDA r : POk(RVar(r.ast), r.pos))

\* between(token('('), token(')'), exp().or(value(nop)))
p_args(ts, pos) ==
  IF ~IsTok(ts, pos, "op", "(") THEN PFail(pos)
  ELSE Then(Or(parser("exp", ts, pos + 1), pos + 1, POk(RNop, pos + 1)),
            LAMBDA a :
              IF IsTok(ts, a.pos, "op", ")") THEN POk(RArgs(a.ast), a.pos + 1)
              ELSE PFail(a.pos))

p_functioncall(ts, pos) ==
  Then(p_symbol(ts, pos), LAMBDA n :
    Then(p_args(ts, n.pos), LAMBDA a :
      POk(RFunctionCall(n.ast, a.ast), a.pos)))

\* the operator tags of each precedence level: None when the lexeme is not
\* an operator of the level
binop1_token(tok) ==
  CASE tok = TKw("and") -> Some("&")
    [] tok = TKw("or") -> Some("|")
    [] OTHER -> None

\* parser.rs:189-197
binop2_token(tok) ==
  CASE tok = TOp("<=") -> Some("g")
    [] tok = TOp(">=") -> Some("l")
    [] tok = TOp("<") -> Some("<")
    [] tok = TOp(">") -> Some(">")
    [] tok = TOp("-") -> Some("-")
    [] tok = TOp("==") -> Some("e")
    [] tok = TOp("~=") -> Some("n")
    [] OTHER -> None

binop3_token(tok) ==
  CASE tok = TOp("+") -> Some("+")
    [] tok = TOp("-") -> Some("-")
    [] OTHER -> None

binop4_token(tok) ==
  CASE tok = TOp("*") -> Some("*")
    [] tok = TOp("/") -> Some("/")
    [] OTHER -> None

level_token(level, tok) ==
  CASE level = 1 -> binop1_token(tok)
    [] level = 2 -> binop2_token(tok)
    [] level = 3 -> binop3_token(tok)
    [] level = 4 -> binop4_token(tok)

\* the operand parser of each level: chainl1(binop2(), token) and so on
level_term(level, ts, pos) ==
  CASE level = 1 -> parser("binop2", ts, pos)
    [] level = 2 -> parser("binop3", ts, pos)
    [] level = 3 -> parser("binop4", ts, pos)
    [] level = 4 -> parser("exp_", ts, pos)

fold_Swapped(tok, d1, d2) == RExp(RBinOp(tok, d2, d1))

\* |d1, d2| Box::new(Rule::Exp(Box::new(Rule::BinOp(tok, d1, d2))))
fold(tok, d1, d2) == RExp(RBinOp(tok, d1, d2))

\* chainl1: after the first operand, (operator, operand) pairs fold left
chainl1_rest(level, ts, acc, pos) ==
  With(level_token(level, Tok(ts, pos)), LAMBDA t :
    IF ~IsSome(t) THEN POk(acc, pos)
    ELSE Then(level_term(level, ts, pos + 1), LAMBDA r :
           chainl1_rest(level, ts, fold(Unwrap(t), acc, r.ast), r.pos)))

chainl1(level, ts, pos) ==
  Then(level_term(level, ts, pos), LAMBDA r :
    chainl1_rest(level, ts, r.ast, r.pos))

binop1(ts, pos) == chainl1(1, ts, pos)
binop2(ts, pos) == chainl1(2, ts, pos)
binop3(ts, pos) == chainl1(3, ts, pos)
binop4(ts, pos) == chainl1(4, ts, pos)

unop_token(tok) ==
  CASE tok = TKw("not") -> Some("!")
    [] tok = TOp("-") -> Some("-")
    [] tok = TOp("#") -> Some("#")
    [] tok = TOp("~") -> Some("~")
    [] OTHER -> None

p_unop(ts, pos) ==
  With(unop_token(Tok(ts, pos)), LAMBDA t :
    IF ~IsSome(t) THEN PFail(pos)
    ELSE Then(parser("exp_", ts, pos + 1), LAMBDA e :
           POk(RUnOp(Unwrap(t), e.ast), e.pos)))

\* between(token('('), token(')'), exp())
p_paren(ts, pos) ==
  IF ~IsTok(ts, pos, "op", "(") THEN PFail(pos)
  ELSE Then(parser("exp", ts, pos + 1), LAMBDA inner :
         IF IsTok(ts, inner.pos, "op", ")") THEN POk(inner.ast, inner.pos + 1)
         ELSE PFail(inner.pos))

\* choice((attempt(functioncall()), attempt(var()), between('(', ')', exp())))
p_prefixexp(ts, pos) ==
  Then(Or(attempt(p_functioncall(ts, pos), pos), pos,
       Or(attempt(p_var(ts, pos), pos), pos,
          p_paren(ts, pos))),
       LAMBDA r : POk(RPrefixexp(r.ast), r.pos))

\* token(',').or(token(';'))
p_fieldsep(ts, pos) ==
  IF IsTok(ts, pos, "op", ",") \/ IsTok(ts, pos, "op", ";")
  THEN POk(RNop, pos + 1)
  ELSE PFail(pos)

\* (between(token('['), token(']'), exp()), token('='), exp())
p_field_bracket(ts, pos) ==
  IF ~IsTok(ts, pos, "op", "[") THEN PFail(pos)
  ELSE Then(parser("exp", ts, pos + 1), LAMBDA e1 :
         IF ~IsTok(ts, e1.pos, "op", "]") THEN PFail(e1.pos)
         ELSE IF ~IsTok(ts, e1.pos + 1, "op", "=") THEN PFail(e1.pos + 1)
         ELSE Then(parser("exp", ts, e1.pos + 2), LAMBDA e2 :
                POk(RField(e1.ast, e2.ast), e2.pos)))

\* (symbol(), token('='), exp())
p_field_named(ts, pos) ==
  Then(p_symbol(ts, pos), LAMBDA e1 :
    IF ~IsTok(ts, e1.pos, "op", "=") THEN PFail(e1.pos)
    ELSE Then(parser("exp", ts, e1.pos + 1), LAMBDA e2 :
           POk(RField(e1.ast, e2.ast), e2.pos)))

\* exp().map(|e1| Field(Nop, e1))
p_field_plain(ts, pos) ==
  Then(parser("exp", ts, pos), LAMBDA e1 : POk(RField(RNop, e1.ast), e1.pos))

\* choice of the three, none of them under attempt
p_field(ts, pos) ==
  Or(p_field_bracket(ts, pos), pos,
  Or(p_field_named(ts, pos), pos,
     p_field_plain(ts, pos)))

\* many((fieldsep(), field())): ends where the pair fails without consuming
RECURSIVE many_fields(_, _, _)
many_fields(ts, vec, pos) ==
  IF p_fieldsep(ts, pos).res # "ok" THEN POk(vec, pos)
  ELSE Then(p_field(ts, pos + 1), LAMBDA f :
         many_fields(ts, Append(vec, f.ast), f.pos))

\* (field(), many((fieldsep(), field())), fieldsep().or(value(())))
p_fieldlist(ts, pos) ==
  Then(p_field(ts, pos), LAMBDA head :
    Then(many_fields(ts, <<head.ast>>, head.pos), LAMBDA tail :
      Then(Or(p_fieldsep(ts, tail.pos), tail.pos, POk(RNop, tail.pos)),
           LAMBDA sep : POk(RFieldList(tail.ast), sep.pos))))

\* between(token('{'), token('}'), fieldlist())
p_tableconstructor(ts, pos) ==
  IF ~IsTok(ts, pos, "op", "{") THEN PFail(pos)
  ELSE Then(p_fieldlist(ts, pos + 1), LAMBDA l :
         IF IsTok(ts, l.pos, "op", "}") THEN POk(RTableConst(l.ast), l.pos + 1)
         ELSE PFail(l.pos))

\* choice((attempt(nil()), attempt(boolean()), numeral(), literal_string(),
\*         unop(), prefixexp(), tableconstructor())).map(Exp)
p_exp_(ts, pos) ==
  Then(Or(attempt(p_nil(ts, pos), pos), pos,
       Or(attempt(p_boolean(ts, pos), pos), pos,
       Or(p_numeral(ts, pos), pos,
       Or(p_literal_string(ts, pos), pos,
       Or(p_unop(ts, pos), pos,
       Or(p_prefixexp(ts, pos), pos,
          p_tableconstructor(ts, pos))))))),
       LAMBDA r : POk(RExp(r.ast), r.pos))

p_exp(ts, pos) == binop1(ts, pos)

parser(name, ts, pos) ==
  CASE name = "exp" -> p_exp(ts, pos)
    [] name = "exp_" -> p_exp_(ts, pos)
    [] name = "binop2" -> binop2(ts, pos)
    [] name = "binop3" -> binop3(ts, pos)
    [] name = "binop4" -> binop4(ts, pos)

\* a whole expression: the parse must reach the end of the input
parse_exp(ts) ==
  With(p_exp(ts, 1), LAMBDA r :
    IF r.res = "ok" /\ r.pos # Len(ts) + 1 THEN PFail(r.pos) ELSE r)

---------------------------------------------------------------------------
(* parser.rs: statements.  What each alternative of stat() builds from the *)
(* parts it parsed.                                                        *)

stat_sep == RStat("Sep", None, None, None, None, None)

\* (attempt(reserved("else")), block()).or(value((Nop, Nop)))
else_pair(blk) == <<<<"Reserved", "else">>, blk>>
no_else == <<RNop, RNop>>

\* parser.rs:415-433: the conditions and the blocks, index-aligned; an else
\* block is paired with a Nop condition
stat_if(ifexp, thenblk, elifpairs, elsepair) ==
  RStat("IfThen",
        Some(RIfStat(
          <<ifexp>> \o [i \in 1..Len(elifpairs) |-> elifpairs[i][1]]
            \o (IF Tag(elsepair[2]) = "Block" THEN <<RNop>> ELSE <<>>),
          <<thenblk>> \o [i \in 1..Len(elifpairs) |-> elifpairs[i][2]]
            \o (IF Tag(elsepair[2]) = "Block" THEN <<elsepair[2]>> ELSE <<>>))),
        None, None, None, None)

stat_local(name, val) ==
  RStat("LocalVar", Some(name), Some(val), None, None, None)

stat_forin(nl, ex, blk) ==
  RStat("ForIn", Some(nl), Some(ex), Some(blk), None, None)

stat_assign(v, e) == RStat("VarAssign", Some(v), Some(e), None, None, None)

stat_call(fc) == RStat("FunctionCall", Some(fc), None, None, None, None)

stat_function(name, body) ==
  RStat("DeclareFunction", Some(name), Some(body), None, None, None)

funcname(sym) == RFuncName(sym)
parlist1(sym) == Some(RParList1(sym))
funcbody(params, blk) == RFuncBody(params, blk)
symbollist(vec) == RSymbolList(vec)

\* reserved("return") then exp().map(Some(LastStat(v))).or(value(None))
laststat(e) == Some(RLastStat(e))

chunk_of(ss, lst) == RChunk(ss, lst)
block_of(ss, lst) == RBlock(chunk_of(ss, lst))

\* attempt((var(), token('='), exp()))
p_stat_assign(ts, pos) ==
  Then(p_var(ts, pos), LAMBDA v :
    IF ~IsTok(ts, v.pos, "op", "=") THEN PFail(v.pos)
    ELSE Then(parser("exp", ts, v.pos + 1), LAMBDA e :
           POk(stat_assign(v.ast, e.ast), e.pos)))

\* attempt(functioncall())
p_stat_call(ts, pos) ==
  Then(p_functioncall(ts, pos), LAMBDA fc : POk(stat_call(fc.ast), fc.pos))

\* stat() on lexemes: `;`, an assignment or a call.  The statements that
\* begin with a reserved word (if, local, for, function) are built by
\* stat_if .. stat_function above and are not among the lexeme inputs.
p_stat(ts, pos) ==
  Or(IF IsTok(ts, pos, "op", ";") THEN POk(stat_sep, pos + 1) ELSE PFail(pos),
     pos,
  Or(attempt(p_stat_assign(ts, pos), pos), pos,
     attempt(p_stat_call(ts, pos), pos)))

\* many(stat()): ends where stat() fails without consuming
RECURSIVE many_stats(_, _, _)
many_stats(ts, vec, pos) ==
  With(p_stat(ts, pos), LAMBDA r :
    IF r.res = "ok" THEN many_stats(ts, Append(vec, r.ast), r.pos)
    ELSE IF Committed(r, pos) THEN r
    ELSE POk(vec, pos))

\* attempt((reserved("return"), exp().map(Some(LastStat)).or(value(None))))
p_laststat(ts, pos) ==
  attempt(IF ~IsTok(ts, pos, "kw", "return") THEN PFail(pos)
          ELSE Or(Then(parser("exp", ts, pos + 1), LAMBDA e :
                    POk(laststat(e.ast), e.pos)),
                  pos + 1, POk(None, pos + 1)),
          pos)

\* (many(stat()), laststat().or(value(None)))
p_chunk(ts, pos) ==
  Then(many_stats(ts, <<>>, pos), LAMBDA ss :
    Then(Or(p_laststat(ts, ss.pos), ss.pos, POk(None, ss.pos)), LAMBDA lst :
      POk(chunk_of(ss.ast, lst.ast), lst.pos)))

---------------------------------------------------------------------------
(* Block-scoped locals: locals are registry slots named by the frame *)

has_local_name(l, name) == IsSome(local_index(l, name))

\* the names the current frame binds
LocalNames(l) ==
  IF IsSome(current_frame(l)) THEN DOMAIN Unwrap(current_frame(l)).env ELSE {}

\* mutate the slot of an existing local, else push a slot and bind it
assign_local(l, name, value) ==
  IF Len(l.frame_stack) = 0 THEN Panic(l, "no active frame")
  ELSE IF has_local_name(l, name)
  THEN Ok([l EXCEPT !.reg.array[Unwrap(local_index(l, name)) + 1] = value], Nil)
  ELSE Ok([push(l, value) EXCEPT
             !.frame_stack[Len(l.frame_stack)].env = MapPut(@, name, l.reg.top)],
          Nil)

start_block_raw(l) == l.reg.top

\* the bindings of the current frame that survive a truncation to oldtop
drop_bindings(l, oldtop) ==
  IF Len(l.frame_stack) = 0 THEN l
  ELSE [l EXCEPT !.frame_stack[Len(l.frame_stack)].env =
          [n \in {m \in DOMAIN @ : @[m] < oldtop} |-> @[n]]]

RECURSIVE truncate_to(_, _)
truncate_to(l, oldtop) ==
  IF oldtop < l.reg.top
  THEN Try(ensure_pop(l), LAMBDA r : truncate_to(r.l, oldtop))
  ELSE Ok(l, Nil)

end_block_raw(l, oldtop) ==
  Try(truncate_to(l, oldtop), LAMBDA r : Ok(drop_bindings(r.l, oldtop), Nil))

---------------------------------------------------------------------------
(* Native functions the host binds: each reads its arguments relative to   *)
(* top, pushes its results and reports how many it pushed.                 *)

\* pushes k numbers and reports r
Pushes(k, r) == <<"pushes", k, r>>
\* range(n): the iterator triple (next, n, 0); next yields w values a step
Range(w) == <<"range", w>>
NextFn(w) == <<"next", w>>

RECURSIVE push_numbers(_, _, _)
push_numbers(l, i, k) ==
  IF i > k THEN l ELSE push_numbers(push(l, Number(i)), i + 1, k)

native_call(l, desc) ==
  CASE desc[1] = "pushes" -> Ok(push_numbers(l, 1, desc[2]), desc[3])
    [] desc[1] = "range" ->
         Try(arg_int(l, 1), LAMBDA n :
           Ok(push(push(push(l, Function(NativeFn(NextFn(desc[2])))),
                        Number(n.v)), Number(0)), 3))
    [] desc[1] = "next" ->
         Try(arg_int(l, 2), LAMBDA n :
           Try(arg_int(l, 1), LAMBDA k :
             IF k.v >= n.v THEN Ok(push(l, Nil), 1)
             ELSE IF desc[2] = 1 THEN Ok(push(l, Number(k.v + 1)), 1)
             ELSE Ok(push(push(l, Number(k.v + 1)), Number(0 - (k.v + 1))), 2)))
    [] OTHER -> Err(l, "unknown native")

---------------------------------------------------------------------------
(* Operators on values: state.rs process_op and its per-kind tables *)

Abs(x) == IF x < 0 THEN 0 - x ELSE x

\* Rust's integer division truncates toward zero
TruncDiv(a, b) ==
  IF (a >= 0) = (b > 0) THEN Abs(a) \div Abs(b) ELSE 0 - (Abs(a) \div Abs(b))

\* an i64 result: out of range it panics (overflow checks) or wraps
arith(l, x) ==
  IF x >= 0 - NumMax - 1 /\ x <= NumMax THEN Ok(l, Number(x))
  ELSE IF l.overflow_checks THEN Panic(l, "arithmetic overflow")
  ELSE Ok(l, Number(((x + NumMax + 1) % (2 * NumMax + 2)) - NumMax - 1))

process_op_number(l, op, a, b) ==
  CASE op = "+" -> arith(l, a + b)
    [] op = "-" -> arith(l, a - b)
    [] op = "*" -> arith(l, a * b)
    [] op = "/" -> IF b = 0 THEN Panic(l, "attempt to divide by zero")
                   ELSE IF a = 0 - NumMax - 1 /\ b = 0 - 1
                   THEN Panic(l, "attempt to divide with overflow")
                   ELSE Ok(l, Number(TruncDiv(a, b)))
    [] op = "l" -> Ok(l, Bool(a <= b))
    [] op = "<" -> Ok(l, Bool(a < b))
    [] op = "g" -> Ok(l, Bool(a >= b))
    [] op = ">" -> Ok(l, Bool(a > b))
    [] op = "e" -> Ok(l, Bool(a = b))
    [] op = "n" -> Ok(l, Bool(a # b))
    [] OTHER -> Err(l, "unsupported op")

process_op_bool(l, op, a, b) ==
  CASE op = "&" -> Ok(l, Bool(a /\ b))
    [] op = "|" -> Ok(l, Bool(a \/ b))
    [] OTHER -> Err(l, "unsupported op")

process_op_str_Concat(l, op, a, b) ==
  CASE op = "e" -> Ok(l, Bool(a = b))
    [] op = "n" -> Ok(l, Bool(a # b))
    [] op = "+" -> Ok(l, LuaString(a \o b))
    [] OTHER -> Err(l, "unsupported op")

process_op_str(l, op, a, b) ==
  CASE op = "e" -> Ok(l, Bool(a = b))
    [] op = "n" -> Ok(l, Bool(a # b))
    [] OTHER -> Err(l, "unsupported op")

process_op(l, op, lvalue, rvalue) ==
  IF IsNumber(lvalue) /\ IsNumber(rvalue)
  THEN process_op_number(l, op, lvalue[2], rvalue[2])
  ELSE IF IsBool(lvalue) /\ IsBool(rvalue)
  THEN process_op_bool(l, op, lvalue[2], rvalue[2])
  ELSE IF IsLuaString(lvalue) /\ IsLuaString(rvalue)
  THEN process_op_str(l, op, lvalue[2], rvalue[2])
  ELSE Err(l, "type error")

\* unary operators: negation of a number, not of a boolean
process_unop(l, op, value) ==
  IF op = "-" /\ IsNumber(value) THEN arith(l, 0 - value[2])
  ELSE IF op = "!" /\ IsBool(value) THEN Ok(l, Bool(~value[2]))
  ELSE Err(l, "unsupported op")

---------------------------------------------------------------------------
(* The evaluator and the calling convention call one another *)

RECURSIVE eval_exp(_, _), eval_binop(_, _), eval_unop(_, _)
RECURSIVE eval_get_var(_, _), eval_prefixexp(_, _), eval_tableconst(_, _)
RECURSIVE eval_funcall(_, _), eval_funcall_multi(_, _), eval_ifthen(_, _)
RECURSIVE eval_chunk(_, _), eval_stat(_, _), eval_block(_, _)
RECURSIVE do_call(_, _), funcall(_, _, _), global_funcall1(_, _, _)
\* the evaluators call one another by name: eval("eval_exp", l, rule) is
\* eval_exp(l, rule)
RECURSIVE eval(_, _, _)

InvalidRule(l) == Err(l, "Invalid rule passed")

---------------------------------------------------------------------------
(* Calling convention *)

\* the callee's names for the argument slots, the last of them just below top
ParamEnv(params, top) ==
  [p \in {params[i] : i \in 1..Len(params)} |->
     top - Len(params) + ((CHOOSE i \in 1..Len(params) : params[i] = p) - 1)]

\* an interpreted callee: push a frame, bind the parameters to the argument
\* slots, evaluate the body, drop the body's locals and the frame, push the
\* value; a native callee runs on the caller's frame
do_call(l, func) ==
  IF func[1] = "native" THEN native_call(l, func[2])
  ELSE IF Len(l.frame_stack) >= MaxFrames THEN Panic(l, "stack overflow")
  ELSE
    With(Log([l EXCEPT !.frame_stack =
                Append(@, CallFrame_new(ParamEnv(func[2], l.reg.top)))],
             <<"call", Len(l.frame_stack) + 1>>), LAMBDA l1 :
      Try(eval("eval_block", l1, func[3]), LAMBDA r :
        Try(end_block_raw(r.l, start_block_raw(l1)), LAMBDA e :
          Ok(returns(Log([e.l EXCEPT !.frame_stack = SubSeq(@, 1, Len(@) - 1)],
                         <<"leave", Len(l1.frame_stack), r.v>>), r.v), 1))))

RECURSIVE push_all(_, _, _)
push_all(l, args, i) ==
  IF i > Len(args) THEN l ELSE push_all(push(l, args[i]), args, i + 1)

\* pops n values; the result lists them in the order they were pushed
RECURSIVE pop_values(_, _, _)
pop_values(l, n, acc) ==
  IF n = 0 THEN Ok(l, acc)
  ELSE Try(ensure_pop(l), LAMBDA r : pop_values(r.l, n - 1, <<r.v>> \o acc))

\* the multi-value call: the same protocol, every reported value is returned
funcall(l, func, args) ==
  IF ~IsFunction(func)
  THEN Err(push_all(l, args, 1), "Specified value is not func")
  ELSE Try(do_call(push_all(l, args, 1), func[2]), LAMBDA c :
         IF l.reg.top + Len(args) + c.v # c.l.reg.top
         THEN Err(c.l, "func should be return values")
         ELSE Try(pop_values(c.l, c.v, <<>>), LAMBDA vs :
                Try(truncate_to(vs.l, l.reg.top), LAMBDA t : Ok(t.l, vs.v))))

ret_count_ok_AtLeast(oldtop, params_n, retnr, top) ==
  oldtop + params_n + retnr <= top

\* state.rs:161
ret_count_ok(oldtop, params_n, retnr, top) ==
  oldtop + params_n + retnr = top

pop_to_oldtop_Once(l, oldtop) ==
  IF oldtop < l.reg.top THEN ensure_pop(l) ELSE Ok(l, Nil)

\* state.rs:171-173
RECURSIVE pop_to_oldtop(_, _)
pop_to_oldtop(l, oldtop) ==
  IF oldtop < l.reg.top
  THEN Try(ensure_pop(l), LAMBDA r : pop_to_oldtop(r.l, oldtop))
  ELSE Ok(l, Nil)

global_funcall1(l, name, arg1) ==
  With(Len(l.log) + 1, LAMBDA id :
  With(push(Log(l, <<"gf_call", id, name, l.reg.top>>), arg1), LAMBDA l1 :
    IF name \notin DOMAIN l1.g
    THEN Err(l1, "Specified func not found")
    ELSE IF ~IsFunction(l1.g[name])
    THEN Err(l1, "Specified name is not func")
    ELSE
      Try(do_call(l1, l1.g[name][2]), LAMBDA c :
      With(Log(c.l, <<"gf_ret", id, c.v, c.l.reg.top>>), LAMBDA l2 :
        IF ~ret_count_ok(l.reg.top, 1, c.v, l2.reg.top)
        THEN Err(l2, "func should be return values")
        ELSE
          Try(IF c.v = 1 THEN ensure_pop(l2) ELSE Ok(l2, Nil), LAMBDA v :
            Try(pop_to_oldtop(v.l, l.reg.top), LAMBDA t :
              Ok(Log(t.l, <<"gf_ok", id, t.l.reg.top, v.v>>), v.v)))))))

---------------------------------------------------------------------------
(* eval.rs *)

eval_exp(l, exp) ==
  IF Tag(exp) # "Exp" THEN InvalidRule(l)
  ELSE CASE Tag(exp[2]) = "Nil" -> Ok(l, Nil)
         [] Tag(exp[2]) = "Bool" -> Ok(l, Bool(exp[2][2]))
         [] Tag(exp[2]) = "Numeral" -> Ok(l, Number(exp[2][2]))
         [] Tag(exp[2]) = "LiteralString" -> Ok(l, LuaString(exp[2][2]))
         [] Tag(exp[2]) = "Prefixexp" -> eval_prefixexp(l, exp[2])
         [] Tag(exp[2]) = "TableConst" -> eval_tableconst(l, exp[2])
         [] Tag(exp[2]) = "BinOp" -> eval("eval_binop", l, exp[2])
         [] Tag(exp[2]) = "UnOp" -> eval("eval_unop", l, exp[2])
         [] OTHER -> Err(l, "Unsupported exp rule")

\* the operand forms eval_binop and eval_unop accept
eval_operand(l, rule, msg) ==
  CASE Tag(rule) = "Exp" -> eval("eval_exp", l, rule)
    [] Tag(rule) = "BinOp" -> eval("eval_binop", l, rule)
    [] Tag(rule) = "UnOp" -> eval("eval_unop", l, rule)
    [] OTHER -> Err(l, msg)

eval_binop(l, binop) ==
  IF Tag(binop) # "BinOp" THEN Err(l, "binop invalid")
  ELSE Try(eval_operand(l, binop[3], "lhs invalid"), LAMBDA lv :
         Try(eval_operand(lv.l, binop[4], "rhs invalid"), LAMBDA rv :
           process_op(rv.l, binop[2], lv.v, rv.v)))

eval_unop(l, unop) ==
  IF Tag(unop) # "UnOp" THEN Err(l, "unop invalid")
  ELSE Try(eval_operand(l, unop[3], "unop exp invalid"), LAMBDA v :
         process_unop(v.l, unop[2], v.v))

\* get_local(name).or(get_global(name))
lookup_GlobalFirst(l, name) ==
  IF IsSome(get_global(l, name)) THEN get_global(l, name)
  ELSE get_local(l, name)

\* what each scope holds for the name, and the depth of the frame stack
Scopes(l, name) ==
  <<get_local(l, name), get_global(l, name), Len(l.frame_stack)>>

\* eval.rs:98-99
lookup(l, name) ==
  IF IsSome(get_local(l, name)) THEN get_local(l, name)
  ELSE get_global(l, name)

eval_get_var(l, exp) ==
  IF Tag(exp) # "Var" THEN InvalidRule(l)
  ELSE IF Tag(exp[2]) # "Symbol" THEN InvalidRule(l)
  ELSE IF get_local_panics(l, exp[2][2]) THEN Panic(l, "index out of bounds")
  ELSE With(lookup(l, exp[2][2]), LAMBDA o :
       With(Log(l, <<"read", exp[2][2], o, Scopes(l, exp[2][2])>>), LAMBDA l1 :
         IF IsSome(o) THEN Ok(l1, Unwrap(o))
         ELSE Err(l1, "Variable not found")))

eval_prefixexp(l, pexp) ==
  IF Tag(pexp) # "Prefixexp" THEN InvalidRule(l)
  ELSE CASE Tag(pexp[2]) = "FunctionCall" -> eval_funcall(l, pexp[2])
         [] Tag(pexp[2]) = "Var" -> eval_get_var(l, pexp[2])
         [] Tag(pexp[2]) = "Exp" -> eval("eval_exp", l, pexp[2])
         [] OTHER -> Err(l, "Unsupported rule")

RECURSIVE tableconst_fields_SkipKeyed(_, _, _, _)
tableconst_fields_SkipKeyed(l, list, i, vec) ==
  IF i > Len(list) THEN Ok(l, Table(vec))
  ELSE IF Tag(list[i]) # "Field" THEN InvalidRule(l)
  ELSE IF Tag(list[i][2]) # "Nop"
  THEN tableconst_fields_SkipKeyed(l, list, i + 1, vec)
  ELSE Try(eval("eval_exp", l, list[i][3]), LAMBDA v :
         tableconst_fields_SkipKeyed(v.l, list, i + 1, Append(vec, v.v)))

\* eval.rs:123-139: the fields in order
RECURSIVE tableconst_fields(_, _, _, _)
tableconst_fields(l, list, i, vec) ==
  IF i > Len(list) THEN Ok(l, Table(vec))
  ELSE IF Tag(list[i]) # "Field" THEN InvalidRule(l)
  ELSE CASE Tag(list[i][2]) = "Symbol" ->
              Panic(l, "not implemented: TODO: table")
         [] Tag(list[i][2]) = "Nop" ->
              Try(eval("eval_exp", l, list[i][3]), LAMBDA v :
                tableconst_fields(v.l, list, i + 1, Append(vec, v.v)))
         [] OTHER -> Err(l, "Unsupported rule for field key")

eval_tableconst(l, exp) ==
  IF Tag(exp) # "TableConst" THEN InvalidRule(l)
  ELSE IF Tag(exp[2]) # "FieldList" THEN InvalidRule(l)
  ELSE tableconst_fields(l, exp[2][2], 1, <<>>)

eval_funcall(l, fc) ==
  IF Tag(fc) # "FunctionCall" THEN InvalidRule(l)
  ELSE IF Tag(fc[2]) # "Symbol" THEN InvalidRule(l)
  ELSE IF Tag(fc[3]) # "Args" THEN InvalidRule(l)
  ELSE CASE Tag(fc[3][2]) = "Exp" ->
              Try(eval("eval_exp", l, fc[3][2]), LAMBDA a :
                global_funcall1(a.l, fc[2][2], a.v))
         [] Tag(fc[3][2]) = "Nop" -> global_funcall1(l, fc[2][2], Nil)
         [] OTHER -> Err(l, "Invalid rule")

eval_funcall_multi(l, fc) ==
  IF Tag(fc) # "FunctionCall" THEN InvalidRule(l)
  ELSE IF Tag(fc[2]) # "Symbol" THEN InvalidRule(l)
  ELSE IF Tag(fc[3]) # "Args" THEN InvalidRule(l)
  ELSE IF ~IsSome(get_global(l, fc[2][2]))
  THEN Err(l, "Please specify func name")
  ELSE With(Unwrap(get_global(l, fc[2][2])), LAMBDA func :
         CASE Tag(fc[3][2]) = "Exp" ->
                Try(eval("eval_exp", l, fc[3][2]), LAMBDA a :
                  funcall(a.l, func, <<a.v>>))
           [] Tag(fc[3][2]) = "Nop" -> funcall(l, func, <<>>)
           [] OTHER -> Err(l, "Invalid rule"))

IsTruthy_ZeroFalse(v) == v # Nil /\ v # Bool(FALSE) /\ v # Number(0)

\* eval.rs:195-209: Nil and Bool(false) fall through to the next condition
IsTruthy(v) == v # Nil /\ v # Bool(FALSE)

\* the block of the arm that was chosen
ifthen_block(l, blocks, i, id) ==
  IF i > Len(blocks) THEN Panic(l, "index out of bounds")
  ELSE Try(eval("eval_block", Log(l, <<"blk", id, i>>), blocks[i]), LAMBDA b :
         Ok(Log(b.l, <<"endif", id, b.v>>), b.v))

RECURSIVE ifthen_from(_, _, _, _, _)
ifthen_from(l, exps, blocks, i, id) ==
  IF i > Len(exps) THEN Ok(Log(l, <<"endif", id, Nil>>), Nil)
  ELSE CASE Tag(exps[i]) = "Exp" ->
              Try(eval("eval_exp", l, exps[i]), LAMBDA v :
                IF IsTruthy(v.v)
                THEN ifthen_block(Log(v.l, <<"cond", id, i, v.v>>), blocks, i, id)
                ELSE ifthen_from(Log(v.l, <<"cond", id, i, v.v>>), exps, blocks,
                                 i + 1, id))
         [] Tag(exps[i]) = "Nop" ->
              ifthen_block(Log(l, <<"else", id, i>>), blocks, i, id)
         [] OTHER -> Err(l, "Invalid rule")

eval_ifthen(l, stat) ==
  IF Tag(stat) # "IfStat" THEN InvalidRule(l)
  ELSE ifthen_from(Log(l, <<"if", Len(l.log) + 1, Len(stat[2])>>),
                   stat[2], stat[3], 1, Len(l.log) + 1)

process_funcname(l, fname) ==
  IF Tag(fname) # "FuncName" THEN InvalidRule(l)
  ELSE IF Tag(fname[2]) # "Symbol" THEN InvalidRule(l)
  ELSE Ok(l, fname[2][2])

process_params(l, params) ==
  IF Tag(params) # "ParList1" THEN InvalidRule(l)
  ELSE IF Tag(params[2]) # "Symbol" THEN InvalidRule(l)
  ELSE Ok(l, <<params[2][2]>>)

\* yields <<params, body>>
eval_funcbody(l, fb) ==
  IF Tag(fb) = "FuncBody" /\ Tag(fb[3]) = "Block"
  THEN IF IsSome(fb[2])
       THEN Try(process_params(l, Unwrap(fb[2])), LAMBDA p :
              Ok(l, <<p.v, fb[3]>>))
       ELSE Ok(l, <<<<>>, fb[3]>>)
  ELSE Err(l, "Invalid composite of funcbody")

\* what an assignment may touch: the globals, the slots, the local names
Snapshot(l) ==
  [g |-> l.g, array |-> l.reg.array,
   env |-> IF IsSome(current_frame(l)) THEN Some(Unwrap(current_frame(l)).env)
           ELSE None]

Flags(l) == [i \in DOMAIN l.frame_stack |-> l.frame_stack[i].to_return]

RECURSIVE chunk_from(_, _, _, _)
chunk_from(l, stats, lst, i) ==
  IF i <= Len(stats)
  THEN Try(eval_stat(Log(l, <<"stat", Len(l.frame_stack), stats[i][2]>>),
                     stats[i]), LAMBDA r :
         IF to_return(r.l) THEN r ELSE chunk_from(r.l, stats, lst, i + 1))
  ELSE IF IsSome(lst)
  THEN IF Tag(Unwrap(lst)) # "LastStat" THEN InvalidRule(l)
       ELSE Try(eval("eval_exp", l, Unwrap(lst)[2]), LAMBDA r :
              IF IsSome(current_frame(r.l))
              THEN With(set_to_return(r.l, TRUE), LAMBDA l1 :
                     Ok(Log(l1, <<"ret", Len(l1.frame_stack), r.v,
                                  Flags(r.l), Flags(l1)>>), r.v))
              ELSE r)
  ELSE Ok(l, Nil)

eval_chunk(l, chunk) ==
  IF Tag(chunk) # "Chunk" THEN Err(l, "Not a chunk")
  ELSE chunk_from(l, chunk[2], chunk[3], 1)

eval_block(l, block) ==
  IF Tag(block) # "Block" THEN InvalidRule(l)
  ELSE eval_chunk(l, block[2])

eval(fn, l, rule) ==
  CASE fn = "eval_exp" -> eval_exp(l, rule)
    [] fn = "eval_binop" -> eval_binop(l, rule)
    [] fn = "eval_unop" -> eval_unop(l, rule)
    [] fn = "eval_block" -> eval_block(l, rule)

\* eval.rs:335-338: the loop variables take the values from the right
RECURSIVE bind_vars(_, _, _, _)
bind_vars(l, varlist, values, i) ==
  IF i = 0 THEN Ok(l, Nil)
  ELSE IF Tag(varlist[i]) # "Symbol" THEN InvalidRule(l)
  ELSE IF Len(values) = 0
  THEN Panic(l, "called Option::unwrap() on a None value")
  ELSE Try(assign_local(l, varlist[i][2], values[Len(values)]), LAMBDA a :
         bind_vars(a.l, varlist, SubSeq(values, 1, Len(values) - 1), i - 1))

next_key_Stale(key, values) == key

\* eval.rs:333: the control value of the next call
next_key(key, values) == values[1]

forin_iteration_NoRollback(l, id, varlist, values, body) ==
  Try(bind_vars(l, varlist, values, Len(varlist)), LAMBDA b :
    Try(eval("eval_block",
             Log(b.l, <<"body", id, start_block_raw(l), LocalNames(l)>>),
             body), LAMBDA e :
      Ok(Log(e.l, <<"endbody", id, e.l.reg.top>>), Nil)))

\* eval.rs:334-340: one iteration in a scope of its own
forin_iteration(l, id, varlist, values, body) ==
  Try(bind_vars(l, varlist, values, Len(varlist)), LAMBDA b :
    Try(eval("eval_block",
             Log(b.l, <<"body", id, start_block_raw(l), LocalNames(l)>>),
             body), LAMBDA e :
      Try(end_block_raw(e.l, start_block_raw(l)), LAMBDA x :
        Ok(Log(x.l, <<"endbody", id, x.l.reg.top>>), Nil))))

\* eval.rs:324-341
RECURSIVE forin_loop(_, _, _, _, _, _, _, _)
forin_loop(l, id, next, collction, key, varlist, body, n) ==
  IF n >= MaxLoop THEN [l |-> l, res |-> "cut", v |-> Nil, msg |-> "loop bound"]
  ELSE
    Try(funcall(l, next, <<collction, key>>), LAMBDA r :
    With(Log(r.l, <<"iter", id, key, r.v>>), LAMBDA l1 :
      IF Len(r.v) = 0 THEN Panic(l1, "index out of bounds")
      ELSE IF r.v[1] = Nil
      THEN Ok(Log(l1, <<"endfor", id, l1.reg.top, LocalNames(l1), l1.g>>), Nil)
      ELSE Try(forin_iteration(l1, id, varlist, r.v, body), LAMBDA it :
             forin_loop(it.l, id, next, collction, next_key(key, r.v),
                        varlist, body, n + 1))))

eval_forin(l, a, b, c) ==
  IF Tag(a) # "SymbolList" THEN InvalidRule(l)
  ELSE IF Tag(b) # "Exp" THEN InvalidRule(l)
  ELSE IF Tag(b[2]) # "Prefixexp" THEN InvalidRule(l)
  ELSE
    Try(eval_funcall_multi(l, b[2][2]), LAMBDA p :
      IF Len(p.v) < 3
      THEN Panic(p.l, "called Option::unwrap() on a None value")
      ELSE forin_loop(Log(p.l, <<"forin", Len(p.l.log) + 1,
                                 Len(p.l.frame_stack), p.l.reg.top,
                                 LocalNames(p.l), p.l.g>>),
                      Len(p.l.log) + 1, p.v[Len(p.v) - 2], p.v[Len(p.v) - 1],
                      p.v[Len(p.v)], a[2], c, 0))

\* eval.rs:279-290: an assignment writes the local of that name if the
\* frame has one, and the global otherwise
eval_varassign(l, var, exp) ==
  IF Tag(var) # "Var" THEN InvalidRule(l)
  ELSE IF Tag(var[2]) # "Symbol" THEN InvalidRule(l)
  ELSE Try(eval("eval_exp", l, exp), LAMBDA v :
         Try(IF has_local_name(v.l, var[2][2])
             THEN assign_local(v.l, var[2][2], v.v)
             ELSE Ok(assign_global(v.l, var[2][2], v.v), Nil), LAMBDA s :
           Ok(Log(s.l, <<"assign", var[2][2], v.v, Snapshot(v.l),
                         Snapshot(s.l), lookup(s.l, var[2][2])>>), Nil)))

\* eval.rs:300-315: a local declaration needs a frame
eval_localvar(l, name, exp) ==
  IF Tag(name) # "Symbol" THEN InvalidRule(l)
  ELSE IF Tag(exp) # "Exp" THEN Err(l, "Expected exp")
  ELSE Try(eval("eval_exp", l, exp), LAMBDA v :
         IF IsSome(current_frame(v.l))
         THEN Try(assign_local(v.l, name[2], v.v), LAMBDA s :
                Ok(Log(s.l, <<"local", name[2], Len(s.l.frame_stack)>>), Nil))
         ELSE Err(v.l, "Expected in function def"))

eval_stat(l, stat) ==
  IF Tag(stat) # "Stat" THEN Err(l, "Not a stat")
  ELSE CASE stat[2] = "Sep" -> Ok(l, Nil)
         [] stat[2] = "VarAssign" ->
              eval_varassign(l, Unwrap(stat[3]), Unwrap(stat[4]))
         [] stat[2] = "FunctionCall" -> eval_funcall(l, Unwrap(stat[3]))
         [] stat[2] = "DeclareFunction" ->
              Try(process_funcname(l, Unwrap(stat[3])), LAMBDA n :
                Try(eval_funcbody(l, Unwrap(stat[4])), LAMBDA f :
                  Ok(register_global_code(l, n.v, f.v[1], f.v[2]), Nil)))
         [] stat[2] = "IfThen" -> eval_ifthen(l, Unwrap(stat[3]))
         [] stat[2] = "LocalVar" ->
              eval_localvar(l, Unwrap(stat[3]), Unwrap(stat[4]))
         [] stat[2] = "ForIn" ->
              eval_forin(l, Unwrap(stat[3]), Unwrap(stat[4]), Unwrap(stat[5]))
         [] OTHER -> Panic(l, "not implemented: Pull request is welcomed!")

---------------------------------------------------------------------------
(* The scripts and expressions the host runs *)

\* largest literal of the expressions
MaxLit == 4
\* deepest nesting of if-statements around a return
MaxNest == 2
\* most fields of a table constructor
MaxFields == 2

Sym(name) == RSymbol(name)
Lit(n) == TNum(<<n>>)
\* an expression, as the parser builds it from its lexemes
E(ts) == parse_exp(ts).ast
Call(name, argts) == <<TSym(name), TOp("(")>> \o argts \o <<TOp(")")>>
Assign(name, ts) == stat_assign(RVar(Sym(name)), E(ts))
Return(ts) == laststat(E(ts))
\* a call statement, as attempt(functioncall()) parses it
FC(name, argts) == p_functioncall(Call(name, argts), 1).ast
DefFunction(name, param, blk) ==
  stat_function(funcname(Sym(name)), funcbody(parlist1(Sym(param)), blk))

\* function f(<param>) <body> end return f(<arg>)
CallF(param, body, argts) ==
  chunk_of(<<DefFunction("f", param, body)>>, Return(Call("f", argts)))

\* x = 7 function f(x) y = x x = 5 return x end return f(1)
ScriptShadow ==
  chunk_of(<<Assign("x", <<Lit(7)>>),
             DefFunction("f", "x",
               block_of(<<Assign("y", <<TSym("x")>>), Assign("x", <<Lit(5)>>)>>,
                        Return(<<TSym("x")>>)))>>,
           Return(Call("f", <<Lit(1)>>)))

\* x = 3 function f(a) return x end return f(1)
ScriptGlobalRead ==
  chunk_of(<<Assign("x", <<Lit(3)>>),
             DefFunction("f", "a", block_of(<<>>, Return(<<TSym("x")>>)))>>,
           Return(Call("f", <<Lit(1)>>)))

\* function f(a) return a end return f(2)
ScriptLocalRead == CallF("a", block_of(<<>>, Return(<<TSym("a")>>)), <<Lit(2)>>)

\* return z
ScriptUnresolved == chunk_of(<<>>, Return(<<TSym("z")>>))

\* x = 1 x = 2 return x
ScriptOverwrite ==
  chunk_of(<<Assign("x", <<Lit(1)>>), Assign("x", <<Lit(2)>>)>>,
           Return(<<TSym("x")>>))

ScopeScripts ==
  {ScriptShadow, ScriptGlobalRead, ScriptLocalRead, ScriptUnresolved,
   ScriptOverwrite}

\* the conditions of the if-chains: nil, false, true, 0, nat(1)
CondSet ==
  {<<TKw("nil")>>, <<TKw("false")>>, <<TKw("true")>>, <<Lit(0)>>,
   <<TSym("nat"), TOp("("), Lit(1), TOp(")")>>}

RetBlock(n) == block_of(<<>>, Return(<<Lit(n)>>))

\* function f(a) if c1 then return 1 elseif c2 then return 2 [else return 3]
\* end return 4 end return f(1)
IfChain(c1, c2, has_else) ==
  CallF("a",
        block_of(<<stat_if(E(c1), RetBlock(1), <<<<E(c2), RetBlock(2)>>>>,
                           IF has_else THEN else_pair(RetBlock(3)) ELSE no_else)>>,
                 Return(<<Lit(4)>>)),
        <<Lit(1)>>)

\* function f(a) if false then return 1 elseif true then return 2
\* elseif true then return 3 else return 4 end end return f(1)
ScriptIfFirstMatch ==
  CallF("a",
        block_of(<<stat_if(E(<<TKw("false")>>), RetBlock(1),
                           <<<<E(<<TKw("true")>>), RetBlock(2)>>,
                             <<E(<<TKw("true")>>), RetBlock(3)>>>>,
                           else_pair(RetBlock(4)))>>, None),
        <<Lit(1)>>)

\* function f(a) if nil then return 1 elseif z then return 2 else return 3 end
\* end return f(1): the second condition fails
ScriptIfError ==
  CallF("a",
        block_of(<<stat_if(E(<<TKw("nil")>>), RetBlock(1),
                           <<<<E(<<TSym("z")>>), RetBlock(2)>>>>,
                           else_pair(RetBlock(3)))>>, None),
        <<Lit(1)>>)

IfScripts ==
  {IfChain(c1, c2, e) : c1 \in CondSet, c2 \in CondSet, e \in BOOLEAN}
    \cup {ScriptIfFirstMatch, ScriptIfError}

\* k if-statements around `return 9`; each enclosing block goes on with
\* `x = k return k`
RECURSIVE NestBody(_)
NestBody(k) ==
  IF k = 0 THEN RetBlock(9)
  ELSE block_of(<<stat_if(E(<<TKw("true")>>), NestBody(k - 1), <<>>, no_else),
                  Assign("x", <<Lit(k)>>)>>,
                Return(<<Lit(k)>>))

\* function g(a) return a end
DefG == DefFunction("g", "a", block_of(<<>>, Return(<<TSym("a")>>)))

\* function g(a) return a end
\* function f(a) if a then return g(2) end x = 1 return 3 end return f(1)
ScriptRetCall ==
  chunk_of(<<DefG,
             DefFunction("f", "a",
               block_of(<<stat_if(E(<<TSym("a")>>),
                                  block_of(<<>>, Return(Call("g", <<Lit(2)>>))),
                                  <<>>, no_else),
                          Assign("x", <<Lit(1)>>)>>,
                        Return(<<Lit(3)>>)))>>,
           Return(Call("f", <<Lit(1)>>)))

\* function g(a) return a end
\* function f(a) g(1) x = 1 return 3 end return f(1)
ScriptCallThenGoOn ==
  chunk_of(<<DefG,
             DefFunction("f", "a",
               block_of(<<stat_call(FC("g", <<Lit(1)>>)),
                          Assign("x", <<Lit(1)>>)>>,
                        Return(<<Lit(3)>>)))>>,
           Return(Call("f", <<Lit(1)>>)))

ReturnScripts ==
  {CallF("a", NestBody(k), <<Lit(1)>>) : k \in 0..MaxNest}
    \cup {ScriptRetCall, ScriptCallThenGoOn}

LoopVars(n) == symbollist([i \in 1..n |-> Sym(IF i = 1 THEN "i" ELSE "v")])

\* [x = 7] function f(a) for i[, v] in range(a) do local x = i y = x end
\* return x end return f(n)
Loop(nvars, n, with_global) ==
  chunk_of((IF with_global THEN <<Assign("x", <<Lit(7)>>)>> ELSE <<>>)
             \o <<DefFunction("f", "a",
                    block_of(<<stat_forin(LoopVars(nvars),
                                 E(Call("range", <<TSym("a")>>)),
                                 block_of(<<stat_local(Sym("x"), E(<<TSym("i")>>)),
                                            Assign("y", <<TSym("x")>>)>>, None))>>,
                             Return(<<TSym("x")>>)))>>,
           Return(Call("f", <<Lit(n)>>)))

\* for i in range(1) do y = i end: a loop outside any function
ScriptLoopTop ==
  chunk_of(<<stat_forin(LoopVars(1), E(Call("range", <<Lit(1)>>)),
                        block_of(<<Assign("y", <<TSym("i")>>)>>, None))>>, None)

\* function f(a) for i in range(a) do y = z end return 1 end return f(2)
ScriptLoopError ==
  CallF("a",
        block_of(<<stat_forin(LoopVars(1), E(Call("range", <<TSym("a")>>)),
                              block_of(<<Assign("y", <<TSym("z")>>)>>, None))>>,
                 Return(<<Lit(1)>>)),
        <<Lit(2)>>)

\* function f(a) for i in range(a) do return i end return 9 end return f(2)
ScriptLoopReturn ==
  CallF("a",
        block_of(<<stat_forin(LoopVars(1), E(Call("range", <<TSym("a")>>)),
                              block_of(<<>>, Return(<<TSym("i")>>)))>>,
                 Return(<<Lit(9)>>)),
        <<Lit(2)>>)

LoopScripts ==
  {Loop(nv, n, wg) : nv \in 1..2, n \in 0..MaxRange, wg \in BOOLEAN}
    \cup {ScriptLoopTop, ScriptLoopError, ScriptLoopReturn}

\* return nat(1)
ScriptCallNative == chunk_of(<<>>, Return(Call("nat", <<Lit(1)>>)))

\* nat() y = nat(1) return y
ScriptCallTwice ==
  chunk_of(<<stat_call(FC("nat", <<>>)),
             Assign("y", Call("nat", <<Lit(1)>>))>>,
           Return(<<TSym("y")>>))

\* function f(a) return nat(a) end return f(1)
ScriptCallNested ==
  CallF("a", block_of(<<>>, Return(Call("nat", <<TSym("a")>>))), <<Lit(1)>>)

CallScripts == {ScriptCallNative, ScriptCallTwice, ScriptCallNested}

Scripts ==
  ScopeScripts \cup IfScripts \cup ReturnScripts \cup LoopScripts
    \cup CallScripts

\* the operands of the comparisons: 0, 1, 2 and -1
Operands == {<<Lit(n)>> : n \in 0..2} \cup {<<TOp("-"), Lit(1)>>}
OperandValue(ts) == IF Len(ts) = 1 THEN ts[1][2][1] ELSE 0 - ts[2][2][1]

CompareOps == {"<", ">", "<=", ">=", "==", "~="}
ArithOps == {"+", "-", "*", "/"}

\* a op b
Comparisons ==
  {a \o <<TOp(op)>> \o b : a \in Operands, b \in Operands, op \in CompareOps}

\* a op1 b op2 c over the literals 1..MaxLit
Arithmetics ==
  {<<Lit(a), TOp(o1), Lit(b), TOp(o2), Lit(c)>> :
     a \in 1..MaxLit, b \in 1..MaxLit, c \in 1..MaxLit,
     o1 \in ArithOps, o2 \in ArithOps}

Expressions == Comparisons \cup Arithmetics

\* the fields of the table constructors: 1, "a", true, x, g(2) without a
\* key, and k = 1, [1] = 2 with one
PlainFields ==
  {<<Lit(1)>>, <<TStr("a")>>, <<TKw("true")>>, <<TSym("x")>>,
   Call("g", <<Lit(2)>>)}
KeyedFields ==
  {<<TSym("k"), TOp("="), Lit(1)>>,
   <<TOp("["), Lit(1), TOp("]"), TOp("="), Lit(2)>>}
FieldLists ==
  UNION {[1..n -> PlainFields \cup KeyedFields] : n \in 0..MaxFields}

\* { f1, f2, ... }
RECURSIVE JoinFields(_, _)
JoinFields(fields, i) ==
  IF i > Len(fields) THEN <<>>
  ELSE (IF i > 1 THEN <<TOp(",")>> ELSE <<>>) \o fields[i]
         \o JoinFields(fields, i + 1)
TableTs(fields) == <<TOp("{")>> \o JoinFields(fields, 1) \o <<TOp("}")>>

\* digit strings of numerals: small ones, one with a leading zero, the
\* largest i32, the number after it and one with a digit more
NumeralDigits ==
  {<<0>>, <<7>>, <<0, 7>>, <<4, 2>>, I32MaxDigits,
   [I32MaxDigits EXCEPT ![Len(I32MaxDigits)] = 8], I32MaxDigits \o <<0>>}

\* the bare literals
LitTokens ==
  {TKw("nil"), TKw("true"), TKw("false"), TStr(""), TStr("a"), TStr("ab c")}
    \cup {TNum(ds) : ds \in NumeralDigits}

\* return L
LiteralChunks == {<<TKw("return"), t>> : t \in LitTokens}

\* other texts: nothing; return; x = 3 return x; x = 3 return x(1);
\* ; return 1 +; return (1)
OtherChunks ==
  {<<>>, <<TKw("return")>>,
   <<TSym("x"), TOp("="), Lit(3), TKw("return"), TSym("x")>>,
   <<TSym("x"), TOp("="), Lit(3), TKw("return")>> \o Call("x", <<Lit(1)>>),
   <<TOp(";"), TKw("return"), Lit(1), TOp("+")>>,
   <<TKw("return"), TOp("("), Lit(1), TOp(")")>>}

ChunkTexts == LiteralChunks \cup OtherChunks

\* the tags binop1..binop4 hand to process_op, and one no parser produces
OpTags == {"+", "-", "*", "/", "l", "<", "g", ">", "e", "n", "&", "|", "%"}

\* operands of every kind; the numbers include the ends of the range
OpValues ==
  {Nil, Bool(TRUE), Bool(FALSE), LuaString("a"), LuaString("1"),
   Function(NativeFn(<<"pushes", 0, 0>>)), Table(<<>>)}
    \cup {Number(n) : n \in {0, 1, 0 - 1, 2, NumMax, 0 - NumMax - 1}}

NativeNames == {"nat", "range"}
Natives(name) ==
  IF name = "nat" THEN {Pushes(k, r) : k \in 0..MaxRet, r \in 0..MaxRet}
  ELSE {Range(w) : w \in 1..2}

---------------------------------------------------------------------------
(* The host: it makes a state, binds natives, may call them directly,      *)
(* then parses and runs one script; a failure or the end of the script     *)
(* ends the run, and the next run starts from a new state.                 *)

\* the interpreter state the operators work on
L ==
  [g |-> g, reg |-> reg, frame_stack |-> frame_stack,
   overflow_checks |-> overflow_checks, log |-> <<>>]

Outcome(op, input, r) ==
  [op |-> op, input |-> input, res |-> r.res, v |-> r.v, msg |-> r.msg,
   log |-> r.l.log]

Commit(op, input, r) ==
  /\ g' = r.l.g
  /\ reg' = r.l.reg
  /\ frame_stack' = r.l.frame_stack
  /\ last' = Outcome(op, input, r)
  /\ UNCHANGED overflow_checks

Halted ==
  \/ last.res # "ok"
  \/ last.op \in {"run", "runexp", "process_op", "runtable", "runchunk"}

Init ==
  /\ g = LuaState_new(RegSize).g
  /\ reg = LuaState_new(RegSize).reg
  /\ frame_stack = LuaState_new(RegSize).frame_stack
  /\ overflow_checks \in BOOLEAN
  /\ last = Outcome("new", <<>>, Ok(L, Nil))

\* LuaState::new for the next run
Reset ==
  /\ Halted
  /\ g' = LuaState_new(RegSize).g
  /\ reg' = LuaState_new(RegSize).reg
  /\ frame_stack' = LuaState_new(RegSize).frame_stack
  /\ last' = [op |-> "new", input |-> <<>>, res |-> "ok", v |-> Nil,
              msg |-> "", log |-> <<>>]
  /\ UNCHANGED overflow_checks

RegisterGlobalFn(name, func) ==
  /\ ~Halted
  /\ Commit("register_global_fn", <<name, func>>,
            Ok(register_global_fn(L, name, func), Nil))

GlobalFuncall1(name, arg1) ==
  /\ ~Halted
  /\ Commit("global_funcall1", <<name, arg1>>, global_funcall1(L, name, arg1))

\* what a failed parse leaves: the state untouched, nothing evaluated
ParseFailed(p) ==
  [l |-> L, res |-> IF p.res = "panic" THEN "panic" ELSE "parse_error",
   v |-> Nil, msg |-> "parse"]

\* parse and run x = 5 function g(a) return a end return { <fields> }
RunTable(fields) ==
  /\ ~Halted
  /\ DOMAIN g = {}
  /\ Commit("runtable", fields,
            With(parse_exp(TableTs(fields)), LAMBDA p :
              IF p.res = "ok"
              THEN eval_chunk(L, chunk_of(<<Assign("x", <<Lit(5)>>), DefG>>,
                                          laststat(p.ast)))
              ELSE ParseFailed(p)))

\* parse a text with chunk() and run the chunk; a text that chunk() does
\* not take to its end is a parse error, nothing of it is run
RunChunk(ts) ==
  /\ ~Halted
  /\ DOMAIN g = {}
  /\ Commit("runchunk", ts,
            With(p_chunk(ts, 1), LAMBDA p :
              IF p.res = "ok" /\ p.pos = Len(ts) + 1 THEN eval_chunk(L, p.ast)
              ELSE ParseFailed(p)))

\* process_op reads nothing of the state (&self): the host applies it to two
\* values on a new state
ProcessOp(op, lvalue, rvalue) ==
  /\ ~Halted
  /\ DOMAIN g = {}
  /\ Commit("process_op", <<op, lvalue, rvalue>>,
            process_op(L, op, lvalue, rvalue))

\* the natives a script names; the host binds them before it runs the script
NatCond == Call("nat", <<Lit(1)>>)
NatIfScripts ==
  {IfChain(c1, c2, e) : c1 \in CondSet, c2 \in CondSet, e \in BOOLEAN}
    \ {IfChain(c1, c2, e) : c1 \in CondSet \ {NatCond},
                             c2 \in CondSet \ {NatCond}, e \in BOOLEAN}
Uses(script) ==
  IF script \in LoopScripts THEN {"range"}
  ELSE IF script \in CallScripts \cup NatIfScripts THEN {"nat"}
  ELSE {}

\* eval_chunk on the chunk the parser built for a script
Run(script) ==
  /\ ~Halted
  /\ DOMAIN g = Uses(script)
  /\ Commit("run", script, eval_chunk(L, script))

\* parse and run `return <expression>`; the expressions name no variable
\* and call nothing, so they are run on a state without bindings
RunExp(ts) ==
  /\ ~Halted
  /\ DOMAIN g = {}
  /\ Commit("runexp", ts,
            With(parse_exp(ts), LAMBDA p :
              IF p.res = "ok"
              THEN eval_chunk(L, chunk_of(<<>>, laststat(p.ast)))
              ELSE ParseFailed(p)))

\* The host working on the registry itself (reg is a public field)

\* how far top has run away from the number of values held
Skew == (Len(reg.array) - reg.top) % UsizeMod

Aborted == last.res = "panic"

\* reg.push(value); the host stops one value past the configured size
RegPush(value) ==
  /\ ~Aborted
  /\ Len(reg.array) <= RegSize
  /\ Commit("reg_push", <<value, reg.top>>, Ok(push(L, value), Nil))

\* reg.pop(): its Option is the value of the outcome
RegPop ==
  /\ ~Aborted
  /\ Len(reg.array) = 0 => Skew < MaxUnderflow
  /\ Commit("reg_pop", Len(reg.array),
            With(pop(L), LAMBDA p :
              IF p.panic THEN Panic(p.l, "attempt to subtract with overflow")
              ELSE Ok(p.l, p.opt)))

RegEnsurePop ==
  /\ ~Aborted
  /\ Len(reg.array) = 0 => Skew < MaxUnderflow
  /\ Commit("reg_ensure_pop", Len(reg.array), ensure_pop(L))

NextReg ==
  \/ Reset
  \/ \E value \in {Nil, Number(1)} : RegPush(value)
  \/ RegPop
  \/ RegEnsurePop

SpecReg == Init /\ [][NextReg]_vars

Next ==
  \/ Reset
  \/ \E name \in NativeNames : \E func \in Natives(name) :
       RegisterGlobalFn(name, func)
  \/ \E name \in NativeNames \cup {"zz"} : \E arg1 \in {Nil, Number(1)} :
       GlobalFuncall1(name, arg1)
  \/ \E script \in Scripts : Run(script)
  \/ \E ts \in Expressions : RunExp(ts)
  \/ \E fields \in FieldLists : RunTable(fields)
  \/ \E ts \in ChunkTexts : RunChunk(ts)
  \/ \E op \in OpTags : \E lvalue \in OpValues : \E rvalue \in OpValues :
       ProcessOp(op, lvalue, rvalue)

Spec == Init /\ [][Next]_vars

---------------------------------------------------------------------------
(* Properties.  They are stated over the history of the last operation:    *)
(* last.log lists, in order, what the operation did.                       *)

Ev(i) == last.log[i]
Events(kind) == {i \in 1..Len(last.log) : Ev(i)[1] = kind}
\* the events of one kind that carry the identity id
EventsOf(kind, id) == {i \in Events(kind) : Ev(i)[2] = id}

\* C1: every call through global_funcall1 that returns Ok leaves reg.top
\* where it was before the call, whether the callee is native or
\* interpreted and whether it reports 0, 1 or more values.
C1_TopRestored ==
  /\ \A i \in Events("gf_ok") :
       /\ Ev(Ev(i)[2])[1] = "gf_call"
       /\ Ev(i)[3] = Ev(Ev(i)[2])[4]
  /\ (last.op = "global_funcall1" /\ last.res = "ok") =>
       /\ Events("gf_ok") # {}
       /\ reg.top = Ev(1)[4]

\* a successful direct call whose callee reported two values, so that more
\* than the argument had to be popped
C1_Witness ==
  /\ last.op = "global_funcall1"
  /\ last.res = "ok"
  /\ \E i \in Events("gf_ret") : Ev(i)[3] = 2 /\ Ev(i)[4] = Ev(Ev(i)[2])[4] + 3

\* C2: when the callee has returned and oldtop + argcount + reported count
\* differs from reg.top, global_funcall1 returns an error and no value; it
\* returns Ok only when the two are equal.
C2_CountChecked ==
  /\ \A i \in Events("gf_ret") :
       Ev(Ev(i)[2])[4] + 1 + Ev(i)[3] # Ev(i)[4] =>
         /\ EventsOf("gf_ok", Ev(i)[2]) = {}
         /\ last.res = "err"
         /\ last.msg = "func should be return values"
  /\ \A j \in Events("gf_ok") :
       \E i \in EventsOf("gf_ret", Ev(j)[2]) :
         Ev(Ev(i)[2])[4] + 1 + Ev(i)[3] = Ev(i)[4]

\* a callee that left more on the stack than it reported
C2_Witness ==
  /\ last.res = "err"
  /\ \E i \in Events("gf_ret") : Ev(Ev(i)[2])[4] + 1 + Ev(i)[3] < Ev(i)[4]

\* the mathematical relation a source operator names
Relation(op, a, b) ==
  CASE op = "<" -> a < b
    [] op = ">" -> a > b
    [] op = "<=" -> a <= b
    [] op = ">=" -> a >= b
    [] op = "==" -> a = b
    [] op = "~=" -> a # b

\* the operands and the operator of a comparison `a op b`
CmpParts(ts) ==
  LET k == CHOOSE i \in 1..Len(ts) : ts[i] \in {TOp(o) : o \in CompareOps}
  IN  [a |-> OperandValue(SubSeq(ts, 1, k - 1)), op |-> ts[k][2],
       b |-> OperandValue(SubSeq(ts, k + 1, Len(ts)))]

IsComparisonRun == last.op = "runexp" /\ last.input \in Comparisons

\* C3: parsing and then evaluating `a op b`, for each of the six
\* comparisons, yields Bool of the relation the operator names.
C3_ComparisonsAgree ==
  IsComparisonRun =>
    /\ last.res = "ok"
    /\ last.v = Bool(Relation(CmpParts(last.input).op, CmpParts(last.input).a,
                              CmpParts(last.input).b))

\* `1 <= 2` has been parsed and evaluated, and the result is Bool(false)
C3_Witness ==
  /\ IsComparisonRun
  /\ last.input = <<Lit(1), TOp("<="), Lit(2)>>
  /\ last.res = "ok"
  /\ last.v = Bool(FALSE)

\* the value of `x o y` for a source operator o, on integers
Apply(o, x, y) ==
  CASE o = "+" -> x + y
    [] o = "-" -> x - y
    [] o = "*" -> x * y
    [] o = "/" -> TruncDiv(x, y)

\* the value of `a o1 b o2 c` by the grammar's precedence: `*` and `/` bind
\* tighter than `+` and `-`, operators of one level group to the left
Grouped(a, o1, b, o2, c) ==
  IF o1 \in {"+", "-"} /\ o2 \in {"*", "/"}
  THEN Apply(o1, a, Apply(o2, b, c))
  ELSE Apply(o2, Apply(o1, a, b), c)

IsArithmeticRun == last.op = "runexp" /\ last.input \in Arithmetics

\* C4: operators of one precedence level fold to the left and `*`, `/` bind
\* tighter than `+`, `-`: `a - b - c` is (a-b)-c, `a + b * c` is a+(b*c);
\* `1 - 2 - 3` evaluates to -4 and `2 + 3 * 4` to 14.
C4_FoldAndPrecedence ==
  IsArithmeticRun =>
    /\ last.res = "ok"
    /\ last.v = Number(Grouped(last.input[1][2][1], last.input[2][2],
                               last.input[3][2][1], last.input[4][2],
                               last.input[5][2][1]))
    /\ last.input = <<Lit(1), TOp("-"), Lit(2), TOp("-"), Lit(3)>> =>
         last.v = Number(0 - 4)
    /\ last.input = <<Lit(2), TOp("+"), Lit(3), TOp("*"), Lit(4)>> =>
         last.v = Number(14)

\* `1 - 2 - 3` has been parsed and evaluated
C4_Witness ==
  /\ IsArithmeticRun
  /\ last.input = <<Lit(1), TOp("-"), Lit(2), TOp("-"), Lit(3)>>
  /\ last.res = "ok"

\* a condition value that selects its block
Matches(v) == v \notin {Nil, Bool(FALSE)}

\* the block of position i of the if-statement id was chosen by its
\* condition, or by the else branch at that position
ChosenAt(id, i) ==
  \/ \E c \in EventsOf("cond", id) : Ev(c)[3] = i /\ Matches(Ev(c)[4])
  \/ \E e \in EventsOf("else", id) : Ev(e)[3] = i

\* C5: eval_ifthen evaluates the conditions in order and executes exactly
\* one block, the one paired with the first condition that is neither Nil
\* nor Bool(false) (the else branch counts as matching); no later condition
\* is evaluated and no other block is executed; when nothing matches and
\* there is no else, no block is executed and the result is Nil.
C5_FirstMatchOnly ==
  /\ \A id \in Events("if") :
       /\ Cardinality(EventsOf("blk", id)) <= 1
       \* in order, each once, and only after every earlier one failed
       /\ \A c \in EventsOf("cond", id) :
            /\ \A d \in EventsOf("cond", id) : Ev(d)[3] = Ev(c)[3] => d = c
            /\ \A j \in 1..(Ev(c)[3] - 1) :
                 \E d \in EventsOf("cond", id) :
                   d < c /\ Ev(d)[3] = j /\ ~Matches(Ev(d)[4])
            /\ Matches(Ev(c)[4]) =>
                 \E b \in EventsOf("blk", id) : b = c + 1 /\ Ev(b)[3] = Ev(c)[3]
       /\ \A e \in EventsOf("else", id) :
            /\ \E b \in EventsOf("blk", id) : b = e + 1 /\ Ev(b)[3] = Ev(e)[3]
            /\ \A j \in 1..(Ev(e)[3] - 1) :
                 \E d \in EventsOf("cond", id) :
                   d < e /\ Ev(d)[3] = j /\ ~Matches(Ev(d)[4])
       /\ \A b \in EventsOf("blk", id) :
            /\ ChosenAt(id, Ev(b)[3])
            /\ \A c \in EventsOf("cond", id) : c < b /\ Ev(c)[3] <= Ev(b)[3]
            /\ \A e \in EventsOf("else", id) : e < b
       /\ \A x \in EventsOf("endif", id) :
            EventsOf("blk", id) = {} =>
              /\ Ev(x)[3] = Nil
              /\ EventsOf("else", id) = {}
              /\ \A j \in 1..Ev(id)[3] :
                   \E d \in EventsOf("cond", id) :
                     Ev(d)[3] = j /\ ~Matches(Ev(d)[4])
  /\ (last.op = "run" /\ last.input = ScriptIfFirstMatch) =>
       last.res = "ok" /\ last.v = Number(2)

\* an if-statement whose first condition failed and whose second condition,
\* the number 0, selected its block
C5_Witness ==
  \E id \in Events("if") :
    /\ \E c \in EventsOf("cond", id) : Ev(c)[3] = 1 /\ ~Matches(Ev(c)[4])
    /\ \E c \in EventsOf("cond", id) : Ev(c)[3] = 2 /\ Ev(c)[4] = Number(0)
    /\ \E b \in EventsOf("blk", id) : Ev(b)[3] = 2
    /\ EventsOf("endif", id) # {}

\* C6: a read of a variable returns the local of that name in the innermost
\* frame when there is one, even if a global of the name exists; otherwise
\* the global of that name; with neither, the read is an error.
C6_LocalThenGlobal ==
  \A r \in Events("read") :
    LET local == Ev(r)[4][1]
        global == Ev(r)[4][2]
    IN  /\ IsSome(local) => Ev(r)[3] = local
        /\ (~IsSome(local) /\ IsSome(global)) => Ev(r)[3] = global
        /\ (~IsSome(local) /\ ~IsSome(global)) =>
             /\ Ev(r)[3] = None
             /\ r = Len(last.log)
             /\ last.res = "err"
             /\ last.msg = "Variable not found"

\* a read of a name that is both a local and a global, of different values
C6_Witness ==
  \E r \in Events("read") :
    /\ IsSome(Ev(r)[4][1])
    /\ IsSome(Ev(r)[4][2])
    /\ Ev(r)[4][1] # Ev(r)[4][2]
    /\ Ev(r)[3] = Ev(r)[4][1]

\* the maps m1 and m2 differ at most at key k
SameExcept(m1, m2, k) ==
  /\ DOMAIN m1 \ {k} = DOMAIN m2 \ {k}
  /\ \A x \in DOMAIN m1 \ {k} : m1[x] = m2[x]

\* C7: `name = expr` writes exactly one binding: the slot of the local
\* `name` of the current frame, leaving the globals unchanged, or else the
\* global entry `name`, leaving every registry slot unchanged; a read of
\* `name` directly after it returns the assigned value.
C7_OneBindingWritten ==
  \A a \in Events("assign") :
    LET name == Ev(a)[2]
        value == Ev(a)[3]
        pre == Ev(a)[4]
        post == Ev(a)[5]
        is_local == IsSome(pre.env) /\ name \in DOMAIN Unwrap(pre.env)
    IN  /\ Ev(a)[6] = Some(value)
        /\ post.env = pre.env
        /\ is_local =>
             /\ post.g = pre.g
             /\ Len(post.array) = Len(pre.array)
             /\ post.array[Unwrap(pre.env)[name] + 1] = value
             /\ SameExcept(post.array, pre.array, Unwrap(pre.env)[name] + 1)
        /\ ~is_local =>
             /\ post.array = pre.array
             /\ name \in DOMAIN post.g
             /\ post.g[name] = value
             /\ SameExcept(post.g, pre.g, name)

\* an assignment to a local whose name is also a global, and an assignment
\* that overwrites a global
C7_Witness ==
  /\ \E a \in Events("assign") :
       /\ IsSome(Ev(a)[4].env)
       /\ Ev(a)[2] \in DOMAIN Unwrap(Ev(a)[4].env)
       /\ Ev(a)[2] \in DOMAIN Ev(a)[4].g
       /\ Ev(a)[5].g[Ev(a)[2]] # Ev(a)[3]
  /\ last.op = "run"
  /\ last.res = "ok"

\* the frame of depth d is left at event x
IsLeave(x, d) == Ev(x)[1] = "leave" /\ Ev(x)[2] = d

\* event r of the frame of depth d lies in the body of a for-in loop of
\* that frame which has not ended
InLoopBody(r, d) ==
  \E f \in Events("forin") :
    /\ f < r
    /\ Ev(f)[3] = d
    /\ \A x \in f..r : ~IsLeave(x, d)
    /\ \A e \in EventsOf("endfor", Ev(f)[2]) : e > r

\* the if-statements that are open at event r
OpenIfs(r) ==
  {i \in Events("if") : i < r /\ \A e \in EventsOf("endif", Ev(i)[2]) : e > r}

\* C8: in an interpreted function, once a `return expr` has been evaluated
\* in a block nested in if-statements to any depth, no further statement of
\* that block or of an enclosing block of the function is executed and the
\* function body evaluates to the value of expr; to_return is only set on
\* the frame of the function that executed the return.
C8_ReturnStopsBlocks ==
  /\ \A r \in Events("ret") :
       LET d == Ev(r)[2]
           before == Ev(r)[4]
           after == Ev(r)[5]
       IN  (d >= 1 /\ ~InLoopBody(r, d)) =>
             /\ Len(after) = d /\ Len(before) = d
             /\ after[d]
             /\ \A i \in 1..(d - 1) : after[i] = before[i]
             /\ \E x \in (r + 1)..Len(last.log) :
                  /\ IsLeave(x, d)
                  /\ Ev(x)[3] = Ev(r)[3]
                  /\ \A i \in (r + 1)..(x - 1) : Ev(i)[1] = "endif"
  /\ \A k \in 0..MaxNest :
       (last.op = "run" /\ last.input = CallF("a", NestBody(k), <<Lit(1)>>)) =>
         /\ last.res = "ok"
         /\ last.v = Number(9)
         /\ "x" \notin DOMAIN g

\* a return inside two nested if-statements of a function body, after
\* which the function was left
C8_Witness ==
  /\ \E r \in Events("ret") :
       /\ Ev(r)[2] = 1
       /\ Cardinality(OpenIfs(r)) >= 2
       /\ \E x \in (r + 1)..Len(last.log) : IsLeave(x, 1)
  /\ last.res = "ok"

\* the events of one kind of the loop id up to event x
Upto(kind, id, x) == {i \in EventsOf(kind, id) : i <= x}

\* the iterator call of the loop id at event i reported Nil first
EndsLoop(i) == Len(Ev(i)[4]) >= 1 /\ Ev(i)[4][1] = Nil

\* C9: a for-in loop whose iterator returns Nil as its first value on its
\* n-th call runs the body exactly n-1 times, calls the iterator exactly n
\* times and then completes without error; the control value passed to
\* call k+1 is the first value call k returned.
C9_LoopCounts ==
  \A f \in Events("forin") :
    LET id == Ev(f)[2]
    IN  /\ \A i \in EventsOf("iter", id) :
             EndsLoop(i) =>
               LET n == Cardinality(Upto("iter", id, i))
               IN  /\ Cardinality(EventsOf("iter", id)) = n
                   /\ Cardinality(EventsOf("body", id)) = n - 1
                   /\ Cardinality(EventsOf("endbody", id)) = n - 1
                   /\ EventsOf("endfor", id) = {i + 1}
        /\ \A i \in EventsOf("iter", id) : \A j \in EventsOf("iter", id) :
             (i < j /\ \A m \in EventsOf("iter", id) : ~(i < m /\ m < j)) =>
               Ev(j)[3] = Ev(i)[4][1]

\* a loop whose iterator reported Nil on its third call
C9_Witness ==
  \E f \in Events("forin") :
    /\ Cardinality(EventsOf("iter", Ev(f)[2])) = 3
    /\ Cardinality(EventsOf("body", Ev(f)[2])) = 2
    /\ EventsOf("endfor", Ev(f)[2]) # {}
    /\ last.res = "ok"

\* event c lies in an iteration of the loop id
InIteration(c, id) ==
  \E b \in EventsOf("body", id) :
    b < c /\ \A e \in EventsOf("endbody", id) : ~(b < e /\ e < c)

\* the names declared with `local` in the body of the loop at event f that
\* were not locals when the loop began
BodyLocals(f) ==
  {Ev(c)[2] : c \in {c \in Events("local") :
                       /\ InIteration(c, Ev(f)[2])
                       /\ Ev(c)[3] = Ev(f)[3]
                       /\ Ev(c)[2] \notin Ev(f)[5]}}

\* read r follows event x in the same activation of the frame of depth d,
\* with no write to the name in between
ReadsAfter(r, x, d) ==
  /\ r > x
  /\ Ev(r)[4][3] = d
  /\ \A i \in x..r :
       /\ ~IsLeave(i, d)
       /\ ~(Ev(i)[1] \in {"assign", "local"} /\ Ev(i)[2] = Ev(r)[2])

\* C10: a for-in loop leaves the local scope as it found it: after every
\* completed iteration and after the loop, reg.top is what it was before
\* the iteration bound the loop variables, and a name declared `local` in
\* the body is no local any more: a read of it after the loop returns the
\* global of that name, unchanged by the loop, or fails as unresolved.
C10_LoopScopeRestored ==
  \A f \in Events("forin") :
    LET id == Ev(f)[2]
        g0 == Ev(f)[6]
    IN  /\ \A e \in EventsOf("endbody", id) :
             \E b \in EventsOf("body", id) :
               /\ b < e
               /\ \A m \in EventsOf("body", id) : ~(b < m /\ m < e)
               /\ Ev(e)[3] = Ev(b)[3]
               /\ Ev(b)[3] = Ev(f)[4]
        /\ \A x \in EventsOf("endfor", id) :
             /\ Ev(x)[3] = Ev(f)[4]
             /\ Ev(x)[4] = Ev(f)[5]
             /\ \A name \in BodyLocals(f) :
                  /\ name \in DOMAIN g0 <=> name \in DOMAIN Ev(x)[5]
                  /\ name \in DOMAIN g0 => Ev(x)[5][name] = g0[name]
                  /\ \A r \in Events("read") :
                       (Ev(r)[2] = name /\ ReadsAfter(r, x, Ev(f)[3])) =>
                         /\ Ev(r)[4][1] = None
                         /\ Ev(r)[3] = IF name \in DOMAIN g0 THEN Some(g0[name])
                                       ELSE None

\* a loop that ran its body, which declared a local named like a global,
\* and a read of the name after the loop
C10_Witness ==
  \E f \in Events("forin") :
    \E x \in EventsOf("endfor", Ev(f)[2]) :
      \E r \in Events("read") :
        /\ Ev(r)[2] \in BodyLocals(f)
        /\ Ev(r)[2] \in DOMAIN Ev(f)[6]
        /\ ReadsAfter(r, x, Ev(f)[3])
        /\ EventsOf("endbody", Ev(f)[2]) # {}

\* the kind of a value, and the operator tags the spec gives each kind
Kind(v) == v[1]
ArithTags == {"+", "-", "*", "/"}
OrderTags == {"l", "<", "g", ">"}
EqTags == {"e", "n"}
LogicTags == {"&", "|"}
Supported(kind) ==
  CASE kind = "Number" -> ArithTags \cup OrderTags \cup EqTags
    [] kind = "Bool" -> LogicTags
    [] kind = "LuaString" -> EqTags
    [] OTHER -> {}

\* C11: process_op returns an error, and no value, for every operator on
\* two operands of different kinds and for every operator the operands'
\* common kind does not support; no operand is coerced.
C11_MixedKindsFail ==
  last.op = "process_op" =>
    LET op == last.input[1]
        lvalue == last.input[2]
        rvalue == last.input[3]
    IN  /\ Kind(lvalue) # Kind(rvalue) =>
             last.res = "err" /\ last.msg = "type error"
        /\ (Kind(lvalue) = Kind(rvalue) /\ op \notin Supported(Kind(lvalue))) =>
             last.res = "err"
        /\ (Kind(lvalue) \in {"LuaString", "Bool"}
              /\ op \in ArithTags \cup OrderTags) => last.res = "err"
        /\ (Kind(lvalue) \in {"LuaString", "Number"} /\ op \in LogicTags) =>
             last.res = "err"

\* `+` on two strings, `+` on a string and a number and `==` on a number
\* and a boolean have each been applied and failed
C11_Witness ==
  /\ last.op = "process_op"
  /\ last.res = "err"
  /\ last.input \in {<<"+", LuaString("a"), LuaString("1")>>,
                      <<"+", LuaString("1"), Number(1)>>,
                      <<"e", Number(1), Bool(TRUE)>>}

\* the mathematical result of an arithmetic tag
Exact(op, a, b) ==
  CASE op = "+" -> a + b
    [] op = "-" -> a - b
    [] op = "*" -> a * b
    [] op = "/" -> TruncDiv(a, b)

InI64(x) == 0 - NumMax - 1 <= x /\ x <= NumMax

\* C20: process_op_number returns a value or an error for every tag and
\* every pair of numbers: a division by zero and an arithmetic result out
\* of the 64-bit range are errors, never an abort or a wrapped number.
C20_NumbersNeverAbort ==
  (last.op = "process_op" /\ IsNumber(last.input[2])
     /\ IsNumber(last.input[3])) =>
    LET op == last.input[1]
        a == last.input[2][2]
        b == last.input[3][2]
    IN  /\ last.res \in {"ok", "err"}
        /\ (op = "/" /\ b = 0) => last.res = "err"
        /\ (op \in ArithTags /\ ~(op = "/" /\ b = 0)
              /\ ~InI64(Exact(op, a, b))) => last.res = "err"
        /\ (op \in ArithTags /\ last.res = "ok") =>
             last.v = Number(Exact(op, a, b))

\* 1 / 0 has been applied and has aborted the evaluation
C20_Witness ==
  /\ last.op = "process_op"
  /\ last.input = <<"/", Number(1), Number(0)>>
  /\ last.res = "panic"

\* what each un-keyed field of the constructors denotes
FieldValue(f) ==
  CASE f = <<Lit(1)>> -> Number(1)
    [] f = <<TStr("a")>> -> LuaString("a")
    [] f = <<TKw("true")>> -> Bool(TRUE)
    [] f = <<TSym("x")>> -> Number(5)
    [] f = Call("g", <<Lit(2)>>) -> Number(2)

AllPlain(fields) == \A i \in 1..Len(fields) : fields[i] \in PlainFields

\* C12: a table constructor whose fields are all un-keyed expressions
\* parses and evaluates to a table that holds the fields' values in
\* source order, one entry per field.
C12_PlainFieldsInOrder ==
  (last.op = "runtable" /\ Len(last.input) >= 1 /\ AllPlain(last.input)) =>
    /\ last.res = "ok"
    /\ last.v = Table([i \in 1..Len(last.input) |-> FieldValue(last.input[i])])

\* {x} has been tried and was rejected by the parser
C12_Witness ==
  /\ last.op = "runtable"
  /\ last.input = <<<<TSym("x")>>>>
  /\ last.res = "parse_error"

\* the constructors of literals alone do give their values in order
LiteralFieldsInOrder ==
  (last.op = "runtable" /\ Len(last.input) >= 1
     /\ \A i \in 1..Len(last.input) :
          last.input[i] \in {<<Lit(1)>>, <<TStr("a")>>}) =>
    /\ last.res = "ok"
    /\ last.v = Table([i \in 1..Len(last.input) |-> FieldValue(last.input[i])])

\* the first field with a key
FirstKeyed(fields) ==
  CHOOSE i \in 1..Len(fields) :
    /\ fields[i] \in KeyedFields
    /\ \A j \in 1..(i - 1) : fields[j] \notin KeyedFields

\* C13: evaluating a table constructor with a keyed field, `name = expr` or
\* `[expr] = expr`, never yields a table: it ends in an error or an abort,
\* so no keyed field is dropped or stored at another position.
C13_KeyedFieldsFail ==
  (last.op = "runtable" /\ ~AllPlain(last.input)) =>
    /\ last.res \in {"err", "panic", "parse_error"}
    /\ last.res # "parse_error" =>
         IF last.input[FirstKeyed(last.input)][1] = TOp("[")
         THEN last.res = "err" /\ last.msg = "Unsupported rule for field key"
         ELSE last.res = "panic" /\ last.msg = "not implemented: TODO: table"

\* {1, k = 1} has been evaluated and has aborted at the keyed field
C13_Witness ==
  /\ last.op = "runtable"
  /\ last.input = <<<<Lit(1)>>, <<TSym("k"), TOp("="), Lit(1)>>>>
  /\ last.res = "panic"

\* C14: parse returns an AST or a parse error for every input; no input,
\* a numeral of any number of digits included, aborts the process.
C14_ParseNeverAborts ==
  last.op \in {"runchunk", "runexp", "runtable"} =>
    ~(last.res = "panic" /\ last.msg = "parse")

\* return 2147483648 has been parsed and the parse has aborted
C14_Witness ==
  /\ last.op = "runchunk"
  /\ last.input =
       <<TKw("return"), TNum([I32MaxDigits EXCEPT ![Len(I32MaxDigits)] = 8])>>
  /\ last.res = "panic"
  /\ last.msg = "parse"

\* the value a bare literal denotes
Denotes(tok) ==
  CASE tok = TKw("nil") -> Nil
    [] tok = TKw("true") -> Bool(TRUE)
    [] tok = TKw("false") -> Bool(FALSE)
    [] tok[1] = "str" -> LuaString(tok[2])
    [] tok[1] = "num" -> Number(DigitsValue(tok[2], 0))

Untouched ==
  /\ g = LuaState_new(RegSize).g
  /\ reg = LuaState_new(RegSize).reg
  /\ frame_stack = LuaState_new(RegSize).frame_stack

\* C16: parsing and evaluating `return L` for a bare literal L (nil, true,
\* false, an unsigned integer literal, a quoted string without escapes)
\* yields the value L denotes and leaves globals, registry and frames
\* unchanged.
C16_LiteralsDenote ==
  (last.op = "runchunk" /\ last.input \in LiteralChunks) =>
    /\ last.res = "ok"
    /\ last.v = Denotes(last.input[2])
    /\ Untouched

\* return 21474836470 has been run and gave no value
C16_Witness ==
  /\ last.op = "runchunk"
  /\ last.input = <<TKw("return"), TNum(I32MaxDigits \o <<0>>)>>
  /\ last.res # "ok"

\* the literals other than the numerals above i32::MAX do denote
LiteralsInRangeDenote ==
  (last.op = "runchunk" /\ last.input \in LiteralChunks
     /\ (last.input[2][1] = "num" => FitsI32(last.input[2][2]))) =>
    /\ last.res = "ok"
    /\ last.v = Denotes(last.input[2])
    /\ Untouched

\* C15: the registry never holds more than its configured capacity, and a
\* push at top = max_size is reported as an error instead of growing the
\* stack.
C15_CapacityKept ==
  /\ Len(reg.array) <= reg.max_size
  /\ reg.top = Len(reg.array) => reg.top <= reg.max_size
  /\ (last.op = "reg_push" /\ last.input[2] = reg.max_size) =>
       last.res = "err"

\* a push on a full registry has been accepted: it holds max_size + 1 values
C15_Witness ==
  /\ last.op = "reg_push"
  /\ last.input[2] = reg.max_size
  /\ last.res = "ok"
  /\ reg.top = reg.max_size + 1
  /\ Len(reg.array) = reg.max_size + 1

\* C19: after any sequence of push, pop and ensure_pop from LuaState::new,
\* top is the number of values held; pop and ensure_pop on an empty
\* registry leave top at 0 and report None, respectively the error, and
\* top does not underflow.
C19_TopCountsValues ==
  /\ reg.top = Len(reg.array)
  /\ (last.op = "reg_pop" /\ last.input = 0) =>
       last.res = "ok" /\ last.v = None /\ reg.top = 0
  /\ (last.op = "reg_ensure_pop" /\ last.input = 0) =>
       /\ last.res = "err"
       /\ last.msg = "Cannot find value from regisrty, maybe empty"
       /\ reg.top = 0

\* pop on the new, empty registry has returned None and left top wrapped
C19_Witness ==
  /\ last.op = "reg_pop"
  /\ last.input = 0
  /\ last.v = None
  /\ reg.top = UsizeMod - 1

\* as long as no pop meets an empty registry, top counts the values held
TopCountsValuesUntilEmptyPop ==
  [][(reg.top = Len(reg.array) /\ ~(last'.op \in {"reg_pop", "reg_ensure_pop"}
                                     /\ last'.input = 0))
       => reg'.top = Len(reg'.array)]_vars

\* the call that failed: the last one entered
FailedCall == CHOOSE i \in Events("gf_call") : \A j \in Events("gf_call") : j <= i

LookupFailed ==
  /\ last.res = "err"
  /\ last.msg \in {"Specified func not found", "Specified name is not func"}

\* C18: when global_funcall1 fails because the name is not in the global
\* table or is bound to a value that is no function, it returns an error
\* and leaves the registry as before the call: reg.top equals oldtop and
\* the argument is not on the stack.
C18_FailedLookupRestores ==
  LookupFailed =>
    /\ Events("gf_call") # {}
    /\ reg.top = Ev(FailedCall)[4]
    /\ Len(reg.array) = Ev(FailedCall)[4]

\* a direct call of a name that is not bound has failed with the argument
\* left on the stack
C18_Witness ==
  /\ last.op = "global_funcall1"
  /\ last.input[1] = "zz"
  /\ LookupFailed
  /\ reg.top = Ev(FailedCall)[4] + 1
  /\ reg.array[reg.top] = last.input[2]

\* the for-in loops of the frame of depth d in whose body event r lies
LoopsAround(r, d) ==
  {f \in Events("forin") :
     /\ f < r
     /\ Ev(f)[3] = d
     /\ \A x \in f..r : ~IsLeave(x, d)
     /\ \A e \in EventsOf("endfor", Ev(f)[2]) : e > r}

\* C17: in an interpreted function, a `return expr` evaluated in the body
\* of a for-in loop ends the loop: the iterator is not called again, the
\* body is not entered again, no statement of the function after the loop
\* is executed, and the function's value is the value of expr.
C17_ReturnEndsLoop ==
  \A r \in Events("ret") :
    LET d == Ev(r)[2]
    IN  \A f \in LoopsAround(r, d) :
          /\ \A i \in EventsOf("iter", Ev(f)[2]) : i < r
          /\ \A b \in EventsOf("body", Ev(f)[2]) : b < r
          /\ \E x \in (r + 1)..Len(last.log) :
               /\ IsLeave(x, d)
               /\ Ev(x)[3] = Ev(r)[3]
               /\ \A i \in (r + 1)..(x - 1) :
                    ~(Ev(i)[1] = "stat" /\ Ev(i)[2] = d)

\* the function `for i in range(a) do return i end return 9` was called
\* with 2: after the return in the first pass the iterator was called
\* again and the body entered again, and the call gave Nil
C17_Witness ==
  /\ last.op = "run"
  /\ last.input = ScriptLoopReturn
  /\ last.res = "ok"
  /\ last.v = Nil
  /\ \E r \in Events("ret") :
       /\ Ev(r)[2] = 1
       /\ Ev(r)[3] # Nil
       /\ \E f \in LoopsAround(r, 1) :
            /\ \E i \in EventsOf("iter", Ev(f)[2]) : i > r
            /\ \E b \in EventsOf("body", Ev(f)[2]) : b > r

=============================================================================
